---- MODULE Spec2Model ----
(***************************************************************************)
(* Risk scoring and finding classification of the legal-document           *)
(* assistant: calculate_risk_score and display_risks_with_filters          *)
(* (app.py), calculate_risk_counts, categorize_risks and                   *)
(* prepare_email_content (email_service.py).                               *)
(*                                                                         *)
(* A Python str is a sequence of one-character strings, so that lower(),   *)
(* split('.'), strip(), split(), count() and the `in` substring test are   *)
(* computed character by character, as the interpreter computes them.      *)
(***************************************************************************)
EXTENDS Integers, Sequences, FiniteSets, TLC

\* Bound: a risk text is built from at most MaxPieces '.'-separated pieces.
MaxPieces == 2

\* The processing cap of calculate_risk_score.
max_text_length_cap == 10000

(***************************************************************************)
(* Python values: str, None and a non-string object (a non-zero int).      *)
(***************************************************************************)
PyStr(s) == [t |-> "str", v |-> s]

PyNone == [t |-> "NoneType", v |-> <<>>]

PyInt == [t |-> "int", v |-> <<>>]

isinstance_str(x) == x.t = "str"

\* bool(x): None and "" are falsy, a non-empty str and a non-zero int truthy.
truthy(x) == IF x.t = "str" THEN x.v # <<>> ELSE x.t # "NoneType"

(***************************************************************************)
(* str methods.                                                            *)
(***************************************************************************)
Whitespace == {" ", "\n", "\t"}

UpperCase ==
    <<"A", "B", "C", "D", "E", "F", "G", "H", "I", "J", "K", "L", "M",
      "N", "O", "P", "Q", "R", "S", "T", "U", "V", "W", "X", "Y", "Z">>

LowerCase ==
    <<"a", "b", "c", "d", "e", "f", "g", "h", "i", "j", "k", "l", "m",
      "n", "o", "p", "q", "r", "s", "t", "u", "v", "w", "x", "y", "z">>

SetMin(S) == CHOOSE x \in S : \A y \in S : x <= y

SetMax(S) == CHOOSE x \in S : \A y \in S : x >= y

min(a, b) == IF a <= b THEN a ELSE b

max(a, b) == IF a >= b THEN a ELSE b

UpperCaseLetters == {UpperCase[i] : i \in 1..26}

lower_char(c) ==
    IF c \in UpperCaseLetters
    THEN LowerCase[CHOOSE i \in 1..26 : UpperCase[i] = c]
    ELSE c

\* s.lower()
lower(s) == [i \in 1..Len(s) |-> lower_char(s[i])]

\* s.strip()
strip(s) ==
    IF \A i \in 1..Len(s) : s[i] \in Whitespace THEN <<>>
    ELSE LET first == CHOOSE i \in 1..Len(s) :
                          s[i] \notin Whitespace /\ \A j \in 1..(i - 1) : s[j] \in Whitespace
             last == CHOOSE i \in 1..Len(s) :
                         s[i] \notin Whitespace /\ \A j \in (i + 1)..Len(s) : s[j] \in Whitespace
         IN  SubSeq(s, first, last)

\* s.split(sep) for a one-character separator: "".split('.') is [''].
RECURSIVE split(_, _)
split(s, sep) ==
    LET at == {i \in 1..Len(s) : s[i] = sep}
    IN  IF at = {} THEN <<s>>
        ELSE <<SubSeq(s, 1, SetMin(at) - 1)>>
                 \o split(SubSeq(s, SetMin(at) + 1, Len(s)), sep)

\* len(s.split()): the number of maximal runs of non-whitespace characters.
len_split(s) ==
    Cardinality({i \in 1..Len(s) :
        s[i] \notin Whitespace /\ (i = 1 \/ s[i - 1] \in Whitespace)})

\* sub in s
contains(s, sub) ==
    \/ sub = <<>>
    \/ \E i \in 1..(Len(s) - Len(sub) + 1) :
           s[i] = sub[1] /\ SubSeq(s, i, i + Len(sub) - 1) = sub

\* any(word in s for word in words)
any_in(s, words) == \E k \in 1..Len(words) : contains(s, words[k])

\* s.count(sub): non-overlapping occurrences, scanning left to right.
RECURSIVE count(_, _)
count(s, sub) ==
    LET found == {i \in 1..(Len(s) - Len(sub) + 1) :
                      s[i] = sub[1] /\ SubSeq(s, i, i + Len(sub) - 1) = sub}
    IN  IF found = {} THEN 0
        ELSE 1 + count(SubSeq(s, SetMin(found) + Len(sub), Len(s)), sub)

\* sum(s.count(word) for word in words)
RECURSIVE sum_count(_, _)
sum_count(s, words) ==
    IF words = <<>> THEN 0
    ELSE count(s, Head(words)) + sum_count(s, Tail(words))

\* sep.join(parts)
RECURSIVE join(_, _)
join(sep, parts) ==
    IF parts = <<>> THEN <<>>
    ELSE IF Len(parts) = 1 THEN parts[1]
    ELSE parts[1] \o sep \o join(sep, Tail(parts))

\* round(n / d) for n >= 0, d > 0: Python rounds a half to the even integer.
\* (n / d is a float in the code; for the totals the model reaches the float
\* quotient falls on a half exactly when the rational does.)
round(n, d) ==
    LET q == n \div d
        r == n % d
    IN  IF 2 * r < d THEN q
        ELSE IF 2 * r > d THEN q + 1
        ELSE IF q % 2 = 0 THEN q ELSE q + 1

\* [s.strip() for s in text.split('.') if s.strip()]
sentences_of(text) ==
    LET pieces == split(text, ".")
        stripped == [i \in 1..Len(pieces) |-> strip(pieces[i])]
    IN  SelectSeq(stripped, LAMBDA s : s # <<>>)

(***************************************************************************)
(* Keywords.                                                               *)
(***************************************************************************)
kw_critical == <<"c", "r", "i", "t", "i", "c", "a", "l">>
kw_severe == <<"s", "e", "v", "e", "r", "e">>
kw_high_risk == <<"h", "i", "g", "h", " ", "r", "i", "s", "k">>
kw_significant == <<"s", "i", "g", "n", "i", "f", "i", "c", "a", "n", "t">>
kw_major == <<"m", "a", "j", "o", "r">>
kw_serious == <<"s", "e", "r", "i", "o", "u", "s">>
kw_high == <<"h", "i", "g", "h">>
kw_moderate == <<"m", "o", "d", "e", "r", "a", "t", "e">>
kw_medium == <<"m", "e", "d", "i", "u", "m">>
kw_potential == <<"p", "o", "t", "e", "n", "t", "i", "a", "l">>
kw_possible == <<"p", "o", "s", "s", "i", "b", "l", "e">>
kw_concerning == <<"c", "o", "n", "c", "e", "r", "n", "i", "n", "g">>

(***************************************************************************)
(* Results.  A call either returns the tuple (score, high, medium, low)    *)
(* or raises; the three lists of categorize_risks likewise.                *)
(***************************************************************************)
Returns(score, high, medium, low) ==
    [raised |-> FALSE, score |-> score, high |-> high, medium |-> medium, low |-> low]

RaisesScore == [raised |-> TRUE, score |-> 0, high |-> 0, medium |-> 0, low |-> 0]

Lists(high_risks, medium_risks, low_risks) ==
    [raised |-> FALSE, high_risks |-> high_risks,
     medium_risks |-> medium_risks, low_risks |-> low_risks]

RaisesLists ==
    [raised |-> TRUE, high_risks |-> <<>>, medium_risks |-> <<>>, low_risks |-> <<>>]

(***************************************************************************)
(* app.py: calculate_risk_score.                                           *)
(***************************************************************************)
\* score = min(100, round((high*3 + medium*2 + low) / max(total, 1) * 20))
app_score(high_count, medium_count, low_count) ==
    LET total == high_count + medium_count + low_count
    IN  IF total = 0 THEN 0
        ELSE min(100, round((high_count * 3 + medium_count * 2 + low_count) * 20,
                            max(total, 1)))

\* calculate_risk_score without the isinstance test of its guard: a truthy
\* non-string reaches risks_text.lower(), which raises.
calculate_risk_score_unguarded(risks_text) ==
    IF ~truthy(risks_text) THEN Returns(0, 0, 0, 0)
    ELSE IF ~isinstance_str(risks_text) THEN RaisesScore
    ELSE
        LET text_sample == lower(risks_text.v)
            high_count == sum_count(text_sample, <<kw_critical, kw_severe, kw_high>>)
            medium_count == sum_count(text_sample, <<kw_moderate, kw_medium>>)
            low_count ==
                max(0, Len(split(text_sample, ".")) - high_count - medium_count)
        IN  IF high_count + medium_count + low_count = 0 THEN Returns(0, 0, 0, 0)
            ELSE Returns(app_score(high_count, medium_count, low_count),
                         high_count, medium_count, low_count)

calculate_risk_score(risks_text) ==
    IF ~truthy(risks_text) \/ ~isinstance_str(risks_text)
    THEN Returns(0, 0, 0, 0)
    ELSE
        LET text_lower == lower(risks_text.v)
            max_text_length == min(Len(text_lower), max_text_length_cap)
            text_sample == SubSeq(text_lower, 1, max_text_length)
            high_count == sum_count(text_sample, <<kw_critical, kw_severe, kw_high>>)
            medium_count == sum_count(text_sample, <<kw_moderate, kw_medium>>)
            low_count ==
                max(0, Len(split(text_sample, ".")) - high_count - medium_count)
            total == high_count + medium_count + low_count
        IN  IF total = 0 THEN Returns(0, 0, 0, 0)
            ELSE Returns(app_score(high_count, medium_count, low_count),
                         high_count, medium_count, low_count)

(***************************************************************************)
(* app.py: display_risks_with_filters.                                     *)
(***************************************************************************)
high_risk_keywords ==
    <<kw_critical, kw_severe, kw_high_risk, kw_significant, kw_major, kw_serious>>

medium_risk_keywords ==
    <<kw_moderate, kw_medium, kw_potential, kw_possible, kw_concerning>>

\* The if / elif / elif chain of the loop over the sentences.
filters_severity(sentence) ==
    LET sentence_lower == lower(sentence)
    IN  IF any_in(sentence_lower, high_risk_keywords) THEN "High"
        ELSE IF any_in(sentence_lower, medium_risk_keywords) THEN "Medium"
        ELSE IF len_split(sentence) > 5 THEN "Low"
        ELSE "None"

\* One displayed line: a group header (index 0) or the numbered risk.
Shown(priority, idx, text) == [priority |-> priority, idx |-> idx, text |-> text]

shown_group(priority, risks, priority_filter) ==
    IF priority \in priority_filter /\ risks # <<>>
    THEN <<Shown(priority, 0, <<>>)>>
             \o [i \in 1..Len(risks) |-> Shown(priority, i, risks[i])]
    ELSE <<>>

\* The three lists, the sentence total and the lines shown, in display order.
display_risks_with_filters(risks_text, priority_filter) ==
    IF ~truthy(risks_text) \/ ~isinstance_str(risks_text)
    THEN [lists |-> Lists(<<>>, <<>>, <<>>), total |-> 0, shown |-> <<>>]
    ELSE
        LET sentences == sentences_of(risks_text.v)
            high_risks == SelectSeq(sentences, LAMBDA s : filters_severity(s) = "High")
            medium_risks == SelectSeq(sentences, LAMBDA s : filters_severity(s) = "Medium")
            low_risks == SelectSeq(sentences, LAMBDA s : filters_severity(s) = "Low")
        IN  IF sentences = <<>>
            THEN [lists |-> Lists(<<>>, <<>>, <<>>), total |-> 0, shown |-> <<>>]
            ELSE [lists |-> Lists(high_risks, medium_risks, low_risks),
                  total |-> Len(sentences),
                  shown |-> shown_group("High", high_risks, priority_filter)
                            \o shown_group("Medium", medium_risks, priority_filter)
                            \o shown_group("Low", low_risks, priority_filter)]

(***************************************************************************)
(* email_service.py: calculate_risk_counts and categorize_risks.           *)
(***************************************************************************)
\* score = min(100, round((high*3 + medium*2 + low) / (total * 3) * 100))
email_score(high_count, medium_count, low_count) ==
    LET total == high_count + medium_count + low_count
    IN  IF total = 0 THEN 0
        ELSE min(100, round((high_count * 3 + medium_count * 2 + low_count) * 100,
                            total * 3))

counts_high_words == <<kw_critical, kw_severe, kw_high_risk, kw_significant, kw_major>>

counts_medium_words == <<kw_moderate, kw_medium, kw_potential, kw_concerning>>

counts_low_excluded ==
    <<kw_critical, kw_severe, kw_high_risk, kw_moderate, kw_medium, kw_potential>>

\* risks_text.lower() raises AttributeError when risks_text is not a str.
calculate_risk_counts(risks_text) ==
    IF ~isinstance_str(risks_text) THEN RaisesScore
    ELSE
        LET text_lower == lower(risks_text.v)
            sentences == sentences_of(text_lower)
            high_count == Len(SelectSeq(sentences, LAMBDA s : any_in(s, counts_high_words)))
            medium_count ==
                Len(SelectSeq(sentences, LAMBDA s : any_in(s, counts_medium_words)))
            low_count ==
                Len(SelectSeq(sentences,
                              LAMBDA s : len_split(s) > 5 /\ ~any_in(s, counts_low_excluded)))
            total == high_count + medium_count + low_count
        IN  IF total = 0 THEN Returns(0, 0, 0, 0)
            ELSE Returns(email_score(high_count, medium_count, low_count),
                         high_count, medium_count, low_count)

categorize_high_words == <<kw_critical, kw_severe, kw_high>>

categorize_medium_words == <<kw_moderate, kw_medium>>

categorize_severity(sentence) ==
    LET sentence_lower == lower(sentence)
    IN  IF any_in(sentence_lower, categorize_high_words) THEN "High"
        ELSE IF any_in(sentence_lower, categorize_medium_words) THEN "Medium"
        ELSE IF len_split(sentence) > 5 THEN "Low"
        ELSE "None"

\* categorize_risks inserting each sentence at the front of its list
\* instead of appending it.
categorize_risks_prepending(risks_text) ==
    IF ~isinstance_str(risks_text) THEN RaisesLists
    ELSE
        LET sentences == sentences_of(risks_text.v)
            reversed(s) == [i \in 1..Len(s) |-> s[Len(s) + 1 - i]]
        IN  Lists(reversed(SelectSeq(sentences, LAMBDA s : categorize_severity(s) = "High")),
                  reversed(SelectSeq(sentences, LAMBDA s : categorize_severity(s) = "Medium")),
                  reversed(SelectSeq(sentences, LAMBDA s : categorize_severity(s) = "Low")))

\* risks_text.split('.') raises AttributeError when risks_text is not a str.
categorize_risks(risks_text) ==
    IF ~isinstance_str(risks_text) THEN RaisesLists
    ELSE
        LET sentences == sentences_of(risks_text.v)
        IN  Lists(SelectSeq(sentences, LAMBDA s : categorize_severity(s) = "High"),
                  SelectSeq(sentences, LAMBDA s : categorize_severity(s) = "Medium"),
                  SelectSeq(sentences, LAMBDA s : categorize_severity(s) = "Low"))

(***************************************************************************)
(* email_service.py: prepare_email_content.  email_content is the list of  *)
(* strings the function appends to and joins with a blank line at its      *)
(* return; an entry is kept as its fixed text (tag), the number formatted  *)
(* into it (n) and the text appended to it (text).                         *)
(***************************************************************************)
Line(tag, n, text) == [tag |-> tag, n |-> n, text |-> text]

\* The bullet character U+2022, one character of a str.
Bullet == "U+2022"

\* The summary, re-paragraphed unless it already starts with a bullet or '-'.
formatted_summary(summary) ==
    IF Head(summary) \notin {Bullet, "-"}
    THEN LET lines == split(summary, "\n")
             stripped == [i \in 1..Len(lines) |-> strip(lines[i])]
             paragraphs == SelectSeq(stripped, LAMBDA p : p # <<>>)
         IN  join(<<"\n", "\n">>, paragraphs)
    ELSE summary

risk_level(score) ==
    IF score >= 70 THEN "Risk Level: High"
    ELSE IF score >= 40 THEN "Risk Level: Medium"
    ELSE "Risk Level: Low"

numbered(risks_list) == [i \in 1..Len(risks_list) |-> Line("item", i, risks_list[i])]

\* The title and the rule of the summary written whenever the box is ticked.
summary_section_unguarded(include_summary, session_summary) ==
    IF include_summary
    THEN <<Line("DOCUMENT SUMMARY", 0, <<>>), Line("-", 30, <<>>)>> \o
         (IF truthy(session_summary)
          THEN <<Line("summary", 0, formatted_summary(session_summary.v))>>
          ELSE <<>>)
    ELSE <<>>

summary_section(include_summary, session_summary) ==
    IF include_summary /\ truthy(session_summary)
    THEN <<Line("DOCUMENT SUMMARY", 0, <<>>), Line("-", 30, <<>>),
           Line("summary", 0, formatted_summary(session_summary.v))>>
    ELSE <<>>

score_section(include_risk_score, session_risks) ==
    IF include_risk_score /\ truthy(session_risks)
    THEN <<Line("\nRISK SCORE", 0, <<>>), Line("-", 30, <<>>)>> \o
         (IF isinstance_str(session_risks)
          THEN LET r == calculate_risk_counts(session_risks)
               IN  <<Line("Overall Risk Score", r.score, <<>>),
                     Line(risk_level(r.score), 0, <<>>),
                     Line("High Priority Issues", r.high, <<>>),
                     Line("Medium Priority Issues", r.medium, <<>>),
                     Line("Low Priority Issues", r.low, <<>>)>>
          ELSE <<Line("Risk score analysis is included in the detailed risk section.",
                      0, <<>>)>>)
    ELSE <<>>

risks_section(include_risks, session_risks) ==
    IF include_risks /\ truthy(session_risks)
    THEN <<Line("\nRISK ANALYSIS", 0, <<>>), Line("-", 30, <<>>)>> \o
         (IF isinstance_str(session_risks)
          THEN LET c == categorize_risks(session_risks)
               IN  (IF c.high_risks # <<>>
                    THEN <<Line("\nHIGH PRIORITY RISKS:", 0, <<>>)>> \o numbered(c.high_risks)
                    ELSE <<>>)
                   \o (IF c.medium_risks # <<>>
                       THEN <<Line("\nMEDIUM PRIORITY RISKS:", 0, <<>>)>>
                                \o numbered(c.medium_risks)
                       ELSE <<>>)
                   \o (IF c.low_risks # <<>>
                       THEN <<Line("\nLOW PRIORITY RISKS:", 0, <<>>)>> \o numbered(c.low_risks)
                       ELSE <<>>)
                   \o (IF c.high_risks = <<>> /\ c.medium_risks = <<>> /\ c.low_risks = <<>>
                       THEN <<Line("risks_text", 0, session_risks.v)>>
                       ELSE <<>>)
          ELSE <<Line("Detailed risk analysis is not available in text format.", 0, <<>>)>>)
    ELSE <<>>

\* An exception of calculate_risk_counts or categorize_risks is not caught
\* inside prepare_email_content: it leaves the function.
prepare_email_raises(include_risk_score, include_risks, session_risks) ==
    \/ /\ include_risk_score /\ truthy(session_risks) /\ isinstance_str(session_risks)
       /\ calculate_risk_counts(session_risks).raised
    \/ /\ include_risks /\ truthy(session_risks) /\ isinstance_str(session_risks)
       /\ categorize_risks(session_risks).raised

prepare_email_content(include_summary, include_risk_score, include_risks, include_visuals, session_summary, session_risks) ==
    summary_section(include_summary, session_summary)
        \o score_section(include_risk_score, session_risks)
        \o risks_section(include_risks, session_risks)

(***************************************************************************)
(* The report as the string the renderers read: str(int), the literals of  *)
(* prepare_email_content and the '\n\n'.join of its parts.                 *)
(***************************************************************************)
repeat(c, n) == [i \in 1..n |-> c]

startswith(s, prefix) == Len(s) >= Len(prefix) /\ SubSeq(s, 1, Len(prefix)) = prefix

\* str.split(sep) with a separator of one or more characters.
RECURSIVE split_on(_, _)
split_on(s, sep) ==
    LET at == {i \in 1..(Len(s) - Len(sep) + 1) : SubSeq(s, i, i + Len(sep) - 1) = sep}
    IN  IF at = {} THEN <<s>>
        ELSE <<SubSeq(s, 1, SetMin(at) - 1)>>
                 \o split_on(SubSeq(s, SetMin(at) + Len(sep), Len(s)), sep)

\* str.replace(old, new): every occurrence, left to right.
replace(s, old, new) == join(new, split_on(s, old))

DecimalDigits == <<"0", "1", "2", "3", "4", "5", "6", "7", "8", "9">>

\* str(n) of a natural number.
RECURSIVE str_int(_)
str_int(n) ==
    IF n < 10 THEN <<DecimalDigits[n + 1]>>
    ELSE str_int(n \div 10) \o <<DecimalDigits[(n % 10) + 1]>>

\* The titles and labels prepare_email_content and the sidebar write in the
\* report, which the renderers look for.
content_strings ==
    [DOCUMENT_SUMMARY |-> <<"D", "O", "C", "U", "M", "E", "N", "T", " ", "S", "U", "M", "M",
           "A", "R", "Y">>,
     RISK_SCORE |-> <<"R", "I", "S", "K", " ", "S", "C", "O", "R", "E">>,
     RISK_ANALYSIS |-> <<"R", "I", "S", "K", " ", "A", "N", "A", "L", "Y", "S", "I", "S">>,
     HIGH_PRIORITY_RISKS |-> <<"H", "I", "G", "H", " ", "P", "R", "I", "O", "R", "I", "T", "Y",
           " ", "R", "I", "S", "K", "S">>,
     MEDIUM_PRIORITY_RISKS |-> <<"M", "E", "D", "I", "U", "M", " ", "P", "R", "I", "O", "R",
           "I", "T", "Y", " ", "R", "I", "S", "K", "S">>,
     LOW_PRIORITY_RISKS |-> <<"L", "O", "W", " ", "P", "R", "I", "O", "R", "I", "T", "Y", " ",
           "R", "I", "S", "K", "S">>,
     Overall_Risk_Score |-> <<"O", "v", "e", "r", "a", "l", "l", " ", "R", "i", "s", "k", " ",
           "S", "c", "o", "r", "e", ":", " ">>,
     Risk_Level |-> <<"R", "i", "s", "k", " ", "L", "e", "v", "e", "l", ":", " ">>,
     High_Priority_Issues |-> <<"H", "i", "g", "h", " ", "P", "r", "i", "o", "r", "i", "t", "y",
           " ", "I", "s", "s", "u", "e", "s", ":", " ">>,
     Medium_Priority_Issues |-> <<"M", "e", "d", "i", "u", "m", " ", "P", "r", "i", "o", "r",
           "i", "t", "y", " ", "I", "s", "s", "u", "e", "s", ":", " ">>,
     Low_Priority_Issues |-> <<"L", "o", "w", " ", "P", "r", "i", "o", "r", "i", "t", "y", " ",
           "I", "s", "s", "u", "e", "s", ":", " ">>,
     score_in_risk_section |-> <<"R", "i", "s", "k", " ", "s", "c", "o", "r", "e", " ", "a",
           "n", "a", "l", "y", "s", "i", "s", " ", "i", "s", " ", "i", "n", "c", "l", "u", "d",
           "e", "d", " ", "i", "n", " ", "t", "h", "e", " ", "d", "e", "t", "a", "i", "l", "e",
           "d", " ", "r", "i", "s", "k", " ", "s", "e", "c", "t", "i", "o", "n", ".">>,
     not_in_text_format |-> <<"D", "e", "t", "a", "i", "l", "e", "d", " ", "r", "i", "s", "k",
           " ", "a", "n", "a", "l", "y", "s", "i", "s", " ", "i", "s", " ", "n", "o", "t", " ",
           "a", "v", "a", "i", "l", "a", "b", "l", "e", " ", "i", "n", " ", "t", "e", "x", "t",
           " ", "f", "o", "r", "m", "a", "t", ".">>]

\* The text of one element of email_content.
line_text(l) ==
    CASE l.tag = "DOCUMENT SUMMARY" -> content_strings.DOCUMENT_SUMMARY
      [] l.tag = "-" -> repeat("-", l.n)
      [] l.tag \in {"summary", "risks_text"} -> l.text
      [] l.tag = "\nRISK SCORE" -> <<"\n">> \o content_strings.RISK_SCORE
      [] l.tag = "Overall Risk Score" ->
             content_strings.Overall_Risk_Score \o str_int(l.n) \o <<"/", "1", "0", "0">>
      [] l.tag = "Risk Level: High" -> content_strings.Risk_Level \o <<"H", "i", "g", "h">>
      [] l.tag = "Risk Level: Medium" -> content_strings.Risk_Level \o <<"M", "e", "d", "i", "u", "m">>
      [] l.tag = "Risk Level: Low" -> content_strings.Risk_Level \o <<"L", "o", "w">>
      [] l.tag = "High Priority Issues" -> content_strings.High_Priority_Issues \o str_int(l.n)
      [] l.tag = "Medium Priority Issues" -> content_strings.Medium_Priority_Issues \o str_int(l.n)
      [] l.tag = "Low Priority Issues" -> content_strings.Low_Priority_Issues \o str_int(l.n)
      [] l.tag = "Risk score analysis is included in the detailed risk section." ->
             content_strings.score_in_risk_section
      [] l.tag = "\nRISK ANALYSIS" -> <<"\n">> \o content_strings.RISK_ANALYSIS
      [] l.tag = "\nHIGH PRIORITY RISKS:" -> <<"\n">> \o content_strings.HIGH_PRIORITY_RISKS \o <<":">>
      [] l.tag = "\nMEDIUM PRIORITY RISKS:" -> <<"\n">> \o content_strings.MEDIUM_PRIORITY_RISKS \o <<":">>
      [] l.tag = "\nLOW PRIORITY RISKS:" -> <<"\n">> \o content_strings.LOW_PRIORITY_RISKS \o <<":">>
      [] l.tag = "item" -> str_int(l.n) \o <<".", " ">> \o l.text
      [] l.tag = "Detailed risk analysis is not available in text format." ->
             content_strings.not_in_text_format

\* return "\n\n".join(email_content)
combined_content(parts) ==
    join(<<"\n", "\n">>, [i \in 1..Len(parts) |-> line_text(parts[i])])

(***************************************************************************)
(* The renderers.  datetime.now() is an input of each rendering.  A text   *)
(* document is its string; a PDF is the sequence of the cells written to   *)
(* it and a Word document the sequence of its headings and paragraphs      *)
(* (spacing and rule drawing left out).                                    *)
(***************************************************************************)
\* The titles, headings and labels generate_txt, generate_docx, generate_pdf
\* and generate_email_pdf write or look for.
render_strings ==
    [LEGAL_DOCUMENT_ANALYSIS_REPORT |-> <<"L", "E", "G", "A", "L", " ", "D", "O", "C", "U", "M",
           "E", "N", "T", " ", "A", "N", "A", "L", "Y", "S", "I", "S", " ", "R", "E", "P", "O",
           "R", "T">>,
     Generated_on_colon |-> <<"G", "e", "n", "e", "r", "a", "t", "e", "d", " ", "o", "n", ":",
           " ">>,
     Generated_on |-> <<"G", "e", "n", "e", "r", "a", "t", "e", "d", " ", "o", "n", " ">>,
     End_of_Report |-> <<"E", "n", "d", " ", "o", "f", " ", "R", "e", "p", "o", "r", "t">>,
     Legal_Document_Analysis_Report |-> <<"L", "e", "g", "a", "l", " ", "D", "o", "c", "u", "m",
           "e", "n", "t", " ", "A", "n", "a", "l", "y", "s", "i", "s", " ", "R", "e", "p", "o",
           "r", "t">>,
     Document_Summary |-> <<"D", "o", "c", "u", "m", "e", "n", "t", " ", "S", "u", "m", "m",
           "a", "r", "y">>,
     Risk_Assessment_Score |-> <<"R", "i", "s", "k", " ", "A", "s", "s", "e", "s", "s", "m",
           "e", "n", "t", " ", "S", "c", "o", "r", "e">>,
     Detailed_Risk_Analysis |-> <<"D", "e", "t", "a", "i", "l", "e", "d", " ", "R", "i", "s",
           "k", " ", "A", "n", "a", "l", "y", "s", "i", "s">>,
     High_Priority_Risks |-> <<"H", "i", "g", "h", " ", "P", "r", "i", "o", "r", "i", "t", "y",
           " ", "R", "i", "s", "k", "s">>,
     Medium_Priority_Risks |-> <<"M", "e", "d", "i", "u", "m", " ", "P", "r", "i", "o", "r",
           "i", "t", "y", " ", "R", "i", "s", "k", "s">>,
     Low_Priority_Risks |-> <<"L", "o", "w", " ", "P", "r", "i", "o", "r", "i", "t", "y", " ",
           "R", "i", "s", "k", "s">>,
     Score_colon |-> <<"S", "c", "o", "r", "e", ":">>,
     Risk_Level_colon |-> <<"R", "i", "s", "k", " ", "L", "e", "v", "e", "l", ":">>,
     Page_1_of_nb |-> <<"P", "a", "g", "e", " ", "1", "/", "{", "n", "b", "}">>,
     low |-> <<"l", "o", "w">>]

str_Legal_Document_Analysis ==
    <<"L", "e", "g", "a", "l", " ", "D", "o", "c", "u", "m", "e", "n", "t", " ", "A", "n", "a",
      "l", "y", "s", "i", "s">>

\* A reading of the clock.
DateTime(date, hour, minute, second) ==
    [date |-> date, hour |-> hour, minute |-> minute, second |-> second]

two_digits(n) == <<DecimalDigits[(n \div 10) + 1], DecimalDigits[(n % 10) + 1]>>

\* The timestamp with the seconds: '%Y-%m-%d %H:%M:%S'.
strftime_with_seconds(now) ==
    now.date \o <<" ">> \o two_digits(now.hour) \o <<":">> \o two_digits(now.minute)
        \o <<":">> \o two_digits(now.second)

\* now.strftime('%Y-%m-%d %H:%M')
strftime(now) == now.date \o <<" ">> \o two_digits(now.hour) \o <<":">> \o two_digits(now.minute)

is_section_header(line) ==
    \/ contains(line, content_strings.DOCUMENT_SUMMARY)
    \/ contains(line, content_strings.RISK_ANALYSIS)
    \/ contains(line, content_strings.RISK_SCORE)

\* The loop of generate_txt over the lines of the content.
RECURSIVE txt_body(_, _)
txt_body(lines, in_section) ==
    IF lines = <<>> THEN <<>>
    ELSE
        LET line == Head(lines)
            section_title == strip(line)
        IN  IF is_section_header(line)
            THEN (IF in_section THEN <<<<>>>> ELSE <<>>)
                     \o <<<<>>, section_title, repeat("-", Len(section_title))>>
                     \o txt_body(Tail(lines), TRUE)
            ELSE IF strip(line) = repeat("=", 50) THEN txt_body(Tail(lines), in_section)
            ELSE (IF strip(line) # <<>> THEN <<line>> ELSE <<>>)
                     \o txt_body(Tail(lines), in_section)

txt_header(now) ==
    <<repeat("=", 80), render_strings.LEGAL_DOCUMENT_ANALYSIS_REPORT,
      render_strings.Generated_on_colon \o strftime(now), repeat("=", 80), <<>>>>

txt_footer == <<<<>>, repeat("-", 80), render_strings.End_of_Report>>

formatted_lines(content, now) ==
    txt_header(now) \o txt_body(split(content, "\n"), FALSE) \o txt_footer

generate_txt(content, now) == join(<<"\n">>, formatted_lines(content, now))

\* One cell of a PDF: pdf.cell or pdf.multi_cell with the font and the text
\* colour set when it is written.
Cell(kind, font, color, text) == [kind |-> kind, font |-> font, color |-> color, text |-> text]

\* part.split("-" * 30)[1].strip() if "-" * 30 in part else <otherwise>
after_rule(part, otherwise) ==
    IF contains(part, repeat("-", 30))
    THEN strip(split_on(part, repeat("-", 30))[2])
    ELSE otherwise

score_cells(score_content) ==
    LET lines == split(score_content, "\n")
    IN  [i \in 1..Len(lines) |->
             IF contains(lines[i], render_strings.Score_colon) \/ contains(lines[i], render_strings.Risk_Level_colon)
             THEN Cell("cell", "B11", "black", lines[i])
             ELSE Cell("cell", "11", "black", lines[i])]

\* The risks of one priority section: its lines but the blank ones and the
\* header line.
risk_cells(section, header) ==
    LET lines == SelectSeq(split(section, "\n"),
                           LAMBDA line : strip(line) # <<>> /\ ~contains(line, header))
    IN  [i \in 1..Len(lines) |-> Cell("multi_cell", "11", "black", lines[i])]

priority_cells(section) ==
    IF contains(section, content_strings.HIGH_PRIORITY_RISKS)
    THEN <<Cell("cell", "B12", "red", render_strings.High_Priority_Risks)>>
             \o risk_cells(section, content_strings.HIGH_PRIORITY_RISKS)
    ELSE IF contains(section, content_strings.MEDIUM_PRIORITY_RISKS)
    THEN <<Cell("cell", "B12", "orange", render_strings.Medium_Priority_Risks)>>
             \o risk_cells(section, content_strings.MEDIUM_PRIORITY_RISKS)
    ELSE IF contains(section, content_strings.LOW_PRIORITY_RISKS)
    THEN <<Cell("cell", "B12", "green", render_strings.Low_Priority_Risks)>>
             \o risk_cells(section, content_strings.LOW_PRIORITY_RISKS)
    ELSE <<>>

RECURSIVE flatten(_)
flatten(seqs) == IF seqs = <<>> THEN <<>> ELSE Head(seqs) \o flatten(Tail(seqs))

analysis_cells(analysis_content) ==
    IF contains(analysis_content, content_strings.HIGH_PRIORITY_RISKS)
    THEN LET sections == split_on(analysis_content, <<"\n", "\n">>)
         IN  flatten([i \in 1..Len(sections) |-> priority_cells(sections[i])])
    ELSE <<Cell("multi_cell", "11", "black", analysis_content)>>

\* The body of the loop of generate_pdf over content.split("\n\n").
pdf_part(part) ==
    IF contains(part, content_strings.DOCUMENT_SUMMARY)
    THEN <<Cell("cell", "B14", "black", render_strings.Document_Summary),
           Cell("multi_cell", "11", "black",
                after_rule(part, strip(replace(part, content_strings.DOCUMENT_SUMMARY, <<>>))))>>
    ELSE IF contains(part, content_strings.RISK_SCORE)
    THEN <<Cell("cell", "B14", "black", render_strings.Risk_Assessment_Score)>>
             \o score_cells(after_rule(part, strip(replace(part, content_strings.RISK_SCORE, <<>>))))
    ELSE IF contains(part, content_strings.RISK_ANALYSIS)
    THEN <<Cell("cell", "B14", "black", render_strings.Detailed_Risk_Analysis)>>
             \o analysis_cells(after_rule(part, strip(replace(part, content_strings.RISK_ANALYSIS, <<>>))))
    ELSE <<Cell("multi_cell", "11", "black", part)>>

\* PDF.header and PDF.footer of the one page the texts of the model fill.
pdf_header(now) ==
    <<Cell("cell", "B16", "black", render_strings.Legal_Document_Analysis_Report),
      Cell("cell", "I10", "black", render_strings.Generated_on \o strftime(now))>>

pdf_footer == <<Cell("cell", "I8", "black", render_strings.Page_1_of_nb)>>

generate_pdf(content, now) ==
    LET content_parts == split_on(content, <<"\n", "\n">>)
    IN  pdf_header(now)
            \o flatten([i \in 1..Len(content_parts) |-> pdf_part(content_parts[i])])
            \o pdf_footer

\* The body of the loop of generate_email_pdf over content.split("\n\n").
email_pdf_part(part) ==
    IF contains(part, content_strings.DOCUMENT_SUMMARY)
    THEN <<Cell("cell", "B14", "black", render_strings.Document_Summary),
           Cell("multi_cell", "11", "black", after_rule(part, part))>>
    ELSE IF contains(part, content_strings.RISK_SCORE)
    THEN <<Cell("cell", "B14", "black", render_strings.Risk_Assessment_Score),
           Cell("multi_cell", "11", "black", after_rule(part, part))>>
    ELSE IF contains(part, content_strings.RISK_ANALYSIS)
    THEN <<Cell("cell", "B14", "black", render_strings.Detailed_Risk_Analysis),
           Cell("multi_cell", "11", "black", after_rule(part, part))>>
    ELSE <<Cell("multi_cell", "11", "black", part)>>

\* The PDF generate_email_pdf returns when nothing in it raises.
generate_email_pdf(content, now) ==
    LET content_parts == split_on(content, <<"\n", "\n">>)
    IN  <<Cell("cell", "B16", "black", str_Legal_Document_Analysis),
          Cell("cell", "I10", "black", render_strings.Generated_on \o strftime(now))>>
            \o flatten([i \in 1..Len(content_parts) |-> email_pdf_part(content_parts[i])])
            \o pdf_footer

\* One run of a paragraph of a Word document.
Run(text, bold, italic, color) ==
    [text |-> text, bold |-> bold, italic |-> italic, color |-> color]

\* A heading (level 1 or 2) or a paragraph (level 0) with its runs.
Block(level, runs) == [level |-> level, runs |-> runs]

\* The runs of a line of the risk analysis that starts with a priority.
priority_runs(line) ==
    LET halves == split_on(line, <<":">>)
        priority == strip(halves[1])
        description == SubSeq(line, Len(halves[1]) + 2, Len(line))
        color == IF contains(lower(priority), kw_high) THEN "red"
                 ELSE IF contains(lower(priority), kw_medium) THEN "orange"
                 ELSE "default"
    IN  <<Run(priority \o <<":", " ">>, TRUE, FALSE, color),
          Run(strip(description), FALSE, FALSE, "default")>>

\* The loop of generate_docx over the lines of the content.
RECURSIVE docx_body(_, _)
docx_body(lines, current_section) ==
    IF lines = <<>> THEN <<>>
    ELSE
        LET line == Head(lines)
            text_run == <<Run(line, FALSE, FALSE, "default")>>
            has_priority ==
                /\ \/ startswith(lower(line), kw_high)
                   \/ startswith(lower(line), kw_medium)
                   \/ startswith(lower(line), render_strings.low)
                /\ contains(line, <<":">>)
        IN  IF contains(line, content_strings.DOCUMENT_SUMMARY)
            THEN <<Block(0, <<>>), Block(2, <<Run(render_strings.Document_Summary, FALSE, FALSE, "default")>>)>>
                     \o docx_body(Tail(lines), "summary")
            ELSE IF contains(line, content_strings.RISK_SCORE)
            THEN <<Block(0, <<>>),
                   Block(2, <<Run(render_strings.Risk_Assessment_Score, FALSE, FALSE, "default")>>)>>
                     \o docx_body(Tail(lines), "risk_score")
            ELSE IF contains(line, content_strings.RISK_ANALYSIS)
            THEN <<Block(0, <<>>),
                   Block(2, <<Run(render_strings.Detailed_Risk_Analysis, FALSE, FALSE, "default")>>)>>
                     \o docx_body(Tail(lines), "risk_analysis")
            ELSE IF strip(line) # <<>> /\ ~startswith(line, <<"=">>) /\ ~startswith(line, <<"-">>)
            THEN <<Block(0, IF current_section = "risk_analysis" /\ has_priority
                            THEN priority_runs(line)
                            ELSE text_run)>>
                     \o docx_body(Tail(lines), current_section)
            ELSE docx_body(Tail(lines), current_section)

generate_docx(content, now) ==
    <<Block(1, <<Run(render_strings.Legal_Document_Analysis_Report, FALSE, FALSE, "default")>>),
      Block(0, <<Run(render_strings.Generated_on_colon \o strftime(now), FALSE, TRUE, "default")>>),
      Block(0, <<Run(repeat("_", 60), FALSE, FALSE, "default")>>)>>
        \o docx_body(split(content, "\n"), "None")
        \o <<Block(0, <<>>), Block(0, <<Run(render_strings.End_of_Report, FALSE, FALSE, "default")>>)>>

(***************************************************************************)
(* app.py: the export of the sidebar.                                      *)
(***************************************************************************)
\* The options of the multiselect: what the session holds.
download_options(session_summary, session_risks) ==
    (IF truthy(session_summary) THEN {"Summary"} ELSE {})
        \cup (IF truthy(session_risks) THEN {"Risk Analysis"} ELSE {})

export_content(selected_content, session_summary, session_risks) ==
    (IF "Summary" \in selected_content /\ truthy(session_summary)
     THEN content_strings.DOCUMENT_SUMMARY \o <<"\n">> \o repeat("=", 50) \o <<"\n">>
              \o session_summary.v \o <<"\n", "\n">>
     ELSE <<>>)
        \o (IF "Risk Analysis" \in selected_content /\ truthy(session_risks)
            THEN content_strings.RISK_ANALYSIS \o <<"\n">> \o repeat("=", 50) \o <<"\n">>
                     \o session_risks.v \o <<"\n", "\n">>
            ELSE <<>>)

\* A BytesIO buffer holding a rendered document.
BytesIO(document) == [t |-> "BytesIO", v |-> document]

\* generate_email_pdf with its try / except: the buffer, or None when
\* something in it raised.
email_pdf_buffer(content, now, pdf_fails) ==
    IF pdf_fails THEN PyNone ELSE BytesIO(generate_email_pdf(content, now))

\* What the download button of a format is given: the renderer called for
\* its data, the file name and the MIME type.
Download(renderer, data, file_name, mime) ==
    [renderer |-> renderer, data |-> data, file_name |-> file_name, mime |-> mime]

NoDownload == Download("None", PyNone, "None", "None")

\* The dispatch on the format with the DOCX branch lost: a Word document is
\* asked and the text file is offered.
export_download_without_docx(export_format, content, now) ==
    IF export_format = "PDF"
    THEN Download("generate_pdf", BytesIO(generate_pdf(content, now)),
                  "legal_analysis.pdf", "application/pdf")
    ELSE Download("generate_txt", PyStr(generate_txt(content, now)),
                  "legal_analysis.txt", "text/plain")

export_download(export_format, content, now) ==
    IF export_format = "PDF"
    THEN Download("generate_pdf", BytesIO(generate_pdf(content, now)),
                  "legal_analysis.pdf", "application/pdf")
    ELSE IF export_format = "DOCX"
    THEN Download("generate_docx", BytesIO(generate_docx(content, now)),
                  "legal_analysis.docx",
                  "application/vnd.openxmlformats-officedocument.wordprocessingml.document")
    ELSE Download("generate_txt", PyStr(generate_txt(content, now)),
                  "legal_analysis.txt", "text/plain")

(***************************************************************************)
(* email_service.py: validate_email, send_email and the attachment of      *)
(* email_ui_section.                                                       *)
(***************************************************************************)
validate_email(email) ==
    /\ email # <<>>
    /\ contains(email, <<"@">>)
    /\ contains(email, <<".">>)

\* What send_email returns, and whether the message reached the server
\* (server.send_message returned) and carried the attachment.
SendResult(success, message, handed, attached) ==
    [raised |-> FALSE, success |-> success, message |-> message, handed |-> handed,
     attached |-> attached]

\* An exception leaving send_email.
RaisesSend ==
    [raised |-> TRUE, success |-> FALSE, message |-> "None", handed |-> FALSE,
     attached |-> FALSE]

\* The attachment is added when all three of its arguments are truthy;
\* the type decides how it is read.
attaches(attachment, attachment_name, attachment_type) ==
    /\ truthy(attachment)
    /\ attachment_name \notin {"None", ""}
    /\ attachment_type \in {"pdf", "docx", "txt"}

\* A str has no getvalue(), MIMEText takes no buffer.
attach_raises(attachment, attachment_name, attachment_type) ==
    /\ attaches(attachment, attachment_name, attachment_type)
    /\ \/ attachment_type = "docx" /\ attachment.t # "BytesIO"
       \/ attachment_type = "txt" /\ attachment.t # "str"

\* send_email without its try / except: the KeyError of a missing secret and
\* the exceptions of the attachment and of the server leave the function.
send_email_unguarded(secrets, smtp, attachment, attachment_name, attachment_type) ==
    IF secrets = "missing" THEN RaisesSend
    ELSE IF secrets = "incomplete"
    THEN SendResult(FALSE, "Email configuration is incomplete. Please check your Streamlit secrets.",
                    FALSE, FALSE)
    ELSE IF attach_raises(attachment, attachment_name, attachment_type) THEN RaisesSend
    ELSE IF smtp # "accepts" THEN RaisesSend
    ELSE SendResult(TRUE, "Email sent successfully!", TRUE,
                    attaches(attachment, attachment_name, attachment_type))

\* send_email with the secrets as configured and the SMTP server behaving as
\* smtp says.  st.secrets raises KeyError for a missing key; every exception
\* inside the function is caught and reported.
send_email(secrets, smtp, attachment, attachment_name, attachment_type) ==
    IF secrets = "missing" THEN SendResult(FALSE, "Error sending email", FALSE, FALSE)
    ELSE IF secrets = "incomplete"
    THEN SendResult(FALSE, "Email configuration is incomplete. Please check your Streamlit secrets.",
                    FALSE, FALSE)
    ELSE IF attach_raises(attachment, attachment_name, attachment_type)
    THEN SendResult(FALSE, "Error sending email", FALSE, FALSE)
    ELSE IF smtp = "refuses"
    THEN SendResult(FALSE, "Error sending email", FALSE, FALSE)
    ELSE IF smtp = "fails_on_quit"
    THEN SendResult(FALSE, "Error sending email", TRUE,
                    attaches(attachment, attachment_name, attachment_type))
    ELSE SendResult(TRUE, "Email sent successfully!", TRUE,
                    attaches(attachment, attachment_name, attachment_type))

\* The attachment of the email: the text, or the PDF when one was generated.
Attachment(attachment, attachment_name, attachment_type) ==
    [attachment |-> attachment, attachment_name |-> attachment_name,
     attachment_type |-> attachment_type]

NoAttachment == Attachment(PyNone, "None", "None")

\* The attachment declared a PDF whatever format was asked and whatever
\* generate_email_pdf returned.
email_attachment_always_pdf(format_option, combined, pdf) ==
    Attachment(pdf, "document_analysis.pdf", "pdf")

\* pdf is what generate_email_pdf returned: None when it failed.
email_attachment(format_option, combined, pdf) ==
    IF format_option = "Text (.txt)"
    THEN Attachment(PyStr(combined), "document_analysis.txt", "txt")
    ELSE IF pdf = PyNone
    THEN Attachment(PyStr(combined), "document_analysis.txt", "txt")
    ELSE Attachment(pdf, "document_analysis.pdf", "pdf")

(***************************************************************************)
(* Inputs.  The risk narrative is whatever identify_risks returned: any    *)
(* string.  It is enumerated as up to MaxPieces pieces joined by '.', the  *)
(* pieces covering an empty and a blank piece, a short and a long clause   *)
(* without keyword, and clauses with the keywords the sites disagree on.   *)
(***************************************************************************)
PieceEmpty == <<>>
PieceBlank == <<" ">>
PieceShort == <<"F", "i", "n", "e">>
PieceLong ==
    <<" ", "A", "l", "l", " ", "f", "e", "e", "s", " ", "a", "r", "e", " ", "d", "u", "e", " ",
      "o", "n", " ", "t", "i", "m", "e">>
PieceBoth ==
    <<"A", " ", "C", "r", "i", "t", "i", "c", "a", "l", " ", "a", "n", "d", " ", "m", "o", "d",
      "e", "r", "a", "t", "e", " ", "i", "s", "s", "u", "e">>
PieceHigh == <<"h", "i", "g", "h", " ", "f", "e", "e", "s">>
PieceMajor ==
    <<" ", "a", " ", "m", "a", "j", "o", "r", " ", "d", "e", "l", "a", "y", " ", "i", "n", " ",
      "t", "h", "e", " ", "f", "i", "r", "s", "t", " ", "d", "e", "l", "i", "v", "e", "r", "y">>
SummaryBullets == <<"-", " ", "o", "k">>
SummaryPlain == <<"o", "k", "\n", "\n", " ", "g", "o", " ">>
SpecExampleText ==
    <<"T", "h", "e", " ", "v", "e", "n", "d", "o", "r", " ", "s", "h", "a", "l", "l", " ", "i",
      "n", "d", "e", "m", "n", "i", "f", "y", " ", "a", "g", "a", "i", "n", "s", "t", " ", "a",
      "l", "l", " ", "c", "r", "i", "t", "i", "c", "a", "l", " ", "l", "i", "a", "b", "i", "l",
      "i", "t", "i", "e", "s", ".", " ", "T", "h", "e", "r", "e", " ", "i", "s", " ", "a", " ",
      "m", "o", "d", "e", "r", "a", "t", "e", " ", "c", "o", "m", "p", "l", "i", "a", "n", "c",
      "e", " ", "g", "a", "p", " ", "n", "o", "t", "e", "d", " ", "h", "e", "r", "e", " ", "t",
      "o", "d", "a", "y", ".">>
PriorityExampleText ==
    <<"T", "h", "i", "s", " ", "i", "s", " ", "a", " ", "c", "r", "i", "t", "i", "c", "a", "l",
      " ", "a", "n", "d", " ", "m", "o", "d", "e", "r", "a", "t", "e", " ", "i", "s", "s", "u",
      "e", ".">>

\* Risk texts around the length calculate_risk_score cuts at: a filler word,
\* then a clause that lies behind the cut, or a keyword that lies across it.
Pad(n) == [i \in 1..n |-> "x"]

ClauseBeyond ==
    <<".", " ", "A", " ", "s", "e", "v", "e", "r", "e", " ", "a", "n", "d", " ", "m", "o", "d",
      "e", "r", "a", "t", "e", " ", "b", "r", "e", "a", "c", "h">>
ClauseStraddle ==
    <<" ", "e", "x", "p", "o", "s", "u", "r", "e", " ", "r", "e", "m", "a", "i", "n", "s">>

\* 'critical', a filler to position 10004, then '. A severe and moderate breach'.
LongBeyondCap == kw_critical \o <<" ">> \o Pad(max_text_length_cap - 5) \o ClauseBeyond

\* 'critical' at positions 9997 to 10004.
LongStraddlingCap == Pad(max_text_length_cap - 4) \o kw_critical \o ClauseStraddle

\* A text of exactly 10000 characters that ends with 'critical'.
LongAtCap == Pad(max_text_length_cap - 8) \o kw_critical

LongTexts == {LongBeyondCap, LongStraddlingCap, LongAtCap}

Pieces ==
    {PieceEmpty, PieceBlank, PieceShort, PieceLong, PieceBoth, PieceHigh, PieceMajor}

PieceSeqs == UNION {[1..n -> Pieces] : n \in 1..MaxPieces}

Texts == {join(<<".">>, ps) : ps \in PieceSeqs} \cup {SpecExampleText, PriorityExampleText}

\* st.session_state.risks: None until a risk analysis ran, then a str.
RiskValues == {PyNone} \cup {PyStr(s) : s \in Texts}

\* The risk analysis of a large document: a str of any length.
LongRiskValues ==
    {PyStr(s) : s \in LongTexts \cup {SpecExampleText, PriorityExampleText, PieceHigh}}

\* st.session_state.summary: None until a summary was generated.
SummaryValues == {PyNone, PyStr(SummaryBullets), PyStr(SummaryPlain)}

\* What a caller may hand to a function besides the session's risk text.
OtherArgs == {PyInt}

PriorityFilters == SUBSET {"High", "Medium", "Low"}

(***************************************************************************)
(* State: the session's summary and risks, and what the interaction of one *)
(* script run computed.  A script run serves one interaction and renders   *)
(* from scratch; none of these functions writes the session, so every run  *)
(* of a session starts from the same summary and risks.                    *)
(***************************************************************************)
VARIABLES summary, risks, last_call, risks_text, raised, score_result, filters_result,
          email_content

\* What an export or an email selected and built, the attachment chosen for
\* the email, the mail configuration and server that send_email met, the
\* renderer and send_email calls made in order, the download offered and the
\* messages shown.
VARIABLES selected, format, report, attachment, mail_env, calls, download, messages

\* The consent state of the session and what the banner returned.
VARIABLES gdpr_consent, show_gdpr_banner, show_privacy_policy, banner_result

ui_vars == <<selected, format, report, attachment, mail_env, calls, download, messages>>

gdpr_vars == <<gdpr_consent, show_gdpr_banner, show_privacy_policy, banner_result>>

\* The file in the uploader, the text extracted from it, the chat, and for
\* the summary and the risks held the text they were made from and how the
\* call of the analyzer ended.
VARIABLES uploaded_file, extracted_text, chat_history, summary_source, risks_source

session_vars == <<uploaded_file, extracted_text, chat_history, summary_source, risks_source>>

vars == <<summary, risks, last_call, risks_text, raised, score_result, filters_result,
          email_content, ui_vars, gdpr_vars, session_vars>>

NoScore == Returns(0, 0, 0, 0)

NoFilters == [lists |-> Lists(<<>>, <<>>, <<>>), total |-> 0, shown |-> <<>>]

\* One call of a renderer or of send_email: its argument, the clock it read,
\* whether it raised, what it returned.
Call(fn, arg, now, call_raised, result) ==
    [fn |-> fn, arg |-> arg, now |-> now, raised |-> call_raised, result |-> result]

Message(level, text) == [level |-> level, text |-> text]

\* [email] of st.secrets and the reaction of the SMTP server.
MailEnv(secrets, smtp) == [secrets |-> secrets, smtp |-> smtp]

NoMail == MailEnv("None", "None")

NotReturned == [returned |-> FALSE, value |-> FALSE]

BannerReturned(value) == [returned |-> TRUE, value |-> value]

\* A file of the uploader: its extension, whether it can be read, its text.
File(type, readable, text) == [type |-> type, readable |-> readable, text |-> text]

NoFile == File("None", FALSE, <<>>)

DocumentA ==
    <<"L", "e", "a", "s", "e", " ", "o", "f", " ", "t", "h", "e", " ", "p", "r", "e", "m", "i",
      "s", "e", "s", ".">>

DocumentB ==
    <<"L", "o", "a", "n", " ", "a", "g", "r", "e", "e", "m", "e", "n", "t", ".">>

\* What a summary or a risk analysis was made from, and the end of the call.
Source(text, outcome) == [text |-> text, outcome |-> outcome]

NoSource == Source(PyNone, "None")

\* The session of an analysed document: the file is in the uploader, its text
\* is held, and the summary and the risks held were made from it.
Held ==
    /\ uploaded_file =
           IF summary = PyNone /\ risks = PyNone THEN NoFile ELSE File("txt", TRUE, DocumentA)
    /\ extracted_text =
           IF summary = PyNone /\ risks = PyNone THEN PyNone ELSE PyStr(DocumentA)
    /\ chat_history = <<>>
    /\ summary_source = IF summary = PyNone THEN NoSource ELSE Source(PyStr(DocumentA), "text")
    /\ risks_source = IF risks = PyNone THEN NoSource ELSE Source(PyStr(DocumentA), "text")

\* A script run that has not yet served an interaction, in a session whose
\* consent state is the one initialize_session_state sets.
Fresh ==
    /\ Held
    /\ last_call = "none"
    /\ risks_text = PyNone
    /\ raised = FALSE
    /\ score_result = NoScore
    /\ filters_result = NoFilters
    /\ email_content = <<>>
    /\ selected = {}
    /\ format = "None"
    /\ report = <<>>
    /\ attachment = NoAttachment
    /\ mail_env = NoMail
    /\ calls = <<>>
    /\ download = NoDownload
    /\ messages = <<>>
    /\ gdpr_consent = FALSE
    /\ show_gdpr_banner = TRUE
    /\ show_privacy_policy = FALSE
    /\ banner_result = NotReturned

Init ==
    /\ summary \in SummaryValues
    /\ risks \in RiskValues
    /\ Fresh

\* A call of calculate_risk_score(risks_text), on the session's risks
\* (display_risk_score, display_risk_summary, display_risk_visualizer) or on
\* a value that is not a str.
CalculateRiskScore(arg) ==
    /\ last_call = "none"
    /\ last_call' = "calculate_risk_score"
    /\ risks_text' = arg
    /\ score_result' = calculate_risk_score(arg)
    /\ raised' = calculate_risk_score(arg).raised
    /\ UNCHANGED <<summary, risks, filters_result, email_content, ui_vars, gdpr_vars>>
    /\ UNCHANGED session_vars

\* A call of display_risks_with_filters(risks_text) with the multiselect's value.
DisplayRisksWithFilters(arg, priority_filter) ==
    /\ last_call = "none"
    /\ last_call' = "display_risks_with_filters"
    /\ risks_text' = arg
    /\ filters_result' = display_risks_with_filters(arg, priority_filter)
    /\ raised' = FALSE
    /\ UNCHANGED <<summary, risks, score_result, email_content, ui_vars, gdpr_vars>>
    /\ UNCHANGED session_vars

\* The checkboxes ticked, as the set of their labels.
checked(include_summary, include_risk_score, include_risks, include_visuals) ==
    (IF include_summary THEN {"Summary"} ELSE {})
        \cup (IF include_risk_score THEN {"Risk Score"} ELSE {})
        \cup (IF include_risks THEN {"Risk Analysis"} ELSE {})
        \cup (IF include_visuals THEN {"Visualizations"} ELSE {})

\* A call of prepare_email_content with the four checkboxes; it reads the
\* session's summary and risks.
PrepareEmailContent(include_summary, include_risk_score, include_risks, include_visuals) ==
    /\ last_call = "none"
    /\ last_call' = "prepare_email_content"
    /\ risks_text' = risks
    /\ raised' = prepare_email_raises(include_risk_score, include_risks, risks)
    /\ email_content' =
           IF raised' THEN <<>>
           ELSE prepare_email_content(include_summary, include_risk_score, include_risks,
                                      include_visuals, summary, risks)
    /\ selected' = checked(include_summary, include_risk_score, include_risks, include_visuals)
    /\ report' = combined_content(email_content')
    /\ UNCHANGED <<summary, risks, score_result, filters_result>>
    /\ UNCHANGED <<format, attachment, mail_env, calls, download, messages, gdpr_vars>>
    /\ UNCHANGED session_vars

Next ==
    \/ \E arg \in {risks} \cup OtherArgs : CalculateRiskScore(arg)
    \/ \E arg \in {risks} \cup OtherArgs, f \in PriorityFilters :
           DisplayRisksWithFilters(arg, f)
    \/ \E s, rs, r, v \in BOOLEAN : PrepareEmailContent(s, rs, r, v)

Spec == Init /\ [][Next]_vars

(***************************************************************************)
(* The same calls on the risk analysis of a large document, in a session   *)
(* that has no summary.                                                    *)
(***************************************************************************)
LongInit ==
    /\ summary = PyNone
    /\ risks \in LongRiskValues
    /\ Fresh

SpecLong == LongInit /\ [][Next]_vars

(***************************************************************************)
(* The export of the sidebar, the email form, send_email called on its     *)
(* own, and the consent banner.  Their inputs: the widgets' values, the    *)
(* clock, and what the libraries and the mail server do.                   *)
(***************************************************************************)
\* How many times the sidebar is run with its widgets unchanged.
MaxRuns == 2

Today == <<"2", "0", "2", "6", "-", "1", "1", "-", "0", "4">>

\* Three readings of the clock, two of them within one minute.
Clock == {DateTime(Today, 9, 5, 10), DateTime(Today, 9, 5, 40), DateTime(Today, 9, 6, 0)}

\* The reading of the clock when an email is prepared.
Noon == DateTime(Today, 12, 0, 0)

\* No reading: send_email does not read the clock.
NoTime == DateTime(<<>>, 0, 0, 0)

seconds(now) == (now.hour * 60 + now.minute) * 60 + now.second

MarkerText ==
    <<"C", "o", "m", "p", "a", "r", "e", " ", "w", "i", "t", "h", " ", "t", "h", "e", " ", "D",
      "O", "C", "U", "M", "E", "N", "T", " ", "S", "U", "M", "M", "A", "R", "Y">>

\* A risk analysis whose lines carry their priority, as generate_docx looks for.
LabelledText ==
    <<"H", "i", "g", "h", ":", " ", "b", "r", "e", "a", "c", "h", "\n", "M", "e", "d", "i", "u",
      "m", ":", " ", "d", "e", "l", "a", "y", "\n", "L", "o", "w", ":", " ", "t", "y", "p",
      "o">>

\* The risk analysis of the sessions whose export and email are followed:
\* none, an empty one, the two examples, one without findings, one that
\* names a section of the report, and one with a priority on each line.
UiRiskValues ==
    {PyNone, PyStr(<<>>), PyStr(SpecExampleText), PyStr(PriorityExampleText),
     PyStr(PieceShort), PyStr(MarkerText), PyStr(LabelledText)}

ExportFormats == {"PDF", "DOCX", "TXT"}

FormatOptions == {"PDF (.pdf)", "Text (.txt)"}

Recipients == {<<"a", "@", "b">>, <<"a", "@", "b", ".", "c">>}

\* [email] of st.secrets: absent, present with an empty value, complete.
Secrets == {"missing", "incomplete", "complete"}

\* The mail server: it takes the message, it refuses (connection, STARTTLS,
\* login or message), or it takes the message and fails at QUIT.
SmtpOutcomes == {"accepts", "refuses", "fails_on_quit"}

\* An exception raised inside the try block of email_ui_section by something
\* other than generate_email_pdf and send_email, which catch their own.
TryFaults == {"none", "before_send", "after_send"}

\* What send_email may be handed by a caller.
SendArgs ==
    {Attachment(PyNone, "None", "None"),
     Attachment(PyStr(<<>>), "document_analysis.txt", "txt"),
     Attachment(PyStr(SummaryBullets), "document_analysis.txt", "txt"),
     Attachment(BytesIO(generate_email_pdf(SummaryBullets, NoTime)),
                "document_analysis.pdf", "pdf"),
     Attachment(PyStr(SummaryBullets), "document_analysis.docx", "docx")}

\* app.py, the sidebar.  Nothing around the renderers catches: an exception
\* of generate_pdf or generate_docx ends the script run.  The script runs
\* again, the widgets unchanged, on any interaction elsewhere.
SidebarExport(selected_content, export_format, now, renderer_raises) ==
    /\ last_call \in {"none", "sidebar_export"}
    /\ last_call = "sidebar_export" =>
           /\ ~raised
           /\ Len(calls) \in 1..(MaxRuns - 1)
           /\ selected_content = selected
           /\ export_format = format
           /\ seconds(now) >= seconds(calls[Len(calls)].now)
    /\ last_call' = "sidebar_export"
    /\ UNCHANGED <<summary, risks, risks_text, score_result, filters_result, email_content,
                   attachment, mail_env, gdpr_vars>>
    /\ IF ~(truthy(summary) \/ truthy(risks))
       THEN /\ messages' =
                   <<Message("info",
                             "Upload a document and analyze it to enable download options.")>>
            /\ UNCHANGED <<raised, selected, format, report, calls, download>>
       ELSE /\ selected_content \subseteq download_options(summary, risks)
            /\ selected' = selected_content
            /\ IF selected_content = {}
               THEN UNCHANGED <<raised, format, report, calls, download, messages>>
               ELSE /\ renderer_raises => export_format \in {"PDF", "DOCX"}
                    /\ format' = export_format
                    /\ report' = export_content(selected_content, summary, risks)
                    /\ download' =
                           IF renderer_raises THEN NoDownload
                           ELSE export_download(export_format, report', now)
                    /\ calls' =
                           Append(calls,
                                  Call(export_download(export_format, <<>>, now).renderer,
                                       PyStr(report'), now, renderer_raises, download'.data))
                    /\ raised' = renderer_raises
                    /\ UNCHANGED messages
    /\ UNCHANGED session_vars

\* st.success or st.error with the message send_email returned.
ShowResult(result) ==
    IF result.success THEN Message("success", result.message)
    ELSE Message("error", result.message)

\* The calls of the try block of email_ui_section and of its except branch:
\* generate_email_pdf for the PDF format, send_email with the attachment
\* unless an exception came first, send_email with the text after an
\* exception.
email_calls(format_option, combined, now, pdf, chosen, secrets, smtp, fault) ==
    (IF format_option = "Text (.txt)" THEN <<>>
     ELSE <<Call("generate_email_pdf", PyStr(combined), now, FALSE, pdf)>>)
        \o (IF fault = "before_send" THEN <<>>
            ELSE <<Call("send_email", chosen, NoTime, FALSE,
                        send_email(secrets, smtp, chosen.attachment, chosen.attachment_name,
                                   chosen.attachment_type))>>)
        \o (IF fault = "none" THEN <<>>
            ELSE <<Call("send_email",
                        Attachment(PyStr(combined), "document_analysis.txt", "txt"), NoTime,
                        FALSE,
                        send_email(secrets, smtp, PyStr(combined), "document_analysis.txt",
                                   "txt"))>>)

\* st.error for a PDF that was not generated, then the outcome of the one
\* send_email, or the messages of the except branch and the outcome of its
\* send_email.
email_messages(made, fault) ==
    (IF made[1].fn = "generate_email_pdf" /\ made[1].result = PyNone
     THEN <<Message("error", "Failed to generate PDF. Sending as text instead.")>>
     ELSE <<>>)
        \o (IF fault = "none" THEN <<ShowResult(made[Len(made)].result)>>
            ELSE <<Message("error", "Error preparing email"),
                   Message("info", "Attempting to send as plain text instead..."),
                   ShowResult(made[Len(made)].result)>>)

\* app.py, the email section, and email_ui_section with the Send button
\* pressed.  A checkbox whose content is None is disabled and unticked.
EmailUi(secrets, recipient, include_summary, include_risk_score, include_risks, format_option, now, pdf_fails, smtp, fault) ==
    /\ last_call = "none"
    /\ last_call' = "email_ui_section"
    /\ UNCHANGED <<summary, risks, score_result, filters_result, download, gdpr_vars>>
    /\ IF secrets = "missing"
       THEN /\ messages' = <<Message("warning", "Email configuration not found.")>>
            /\ UNCHANGED <<risks_text, raised, email_content, selected, format, report, calls,
                           attachment, mail_env>>
       ELSE IF ~(truthy(summary) \/ truthy(risks))
       THEN /\ messages' =
                   <<Message("info",
                             "Upload a document and analyze it to enable email options.")>>
            /\ UNCHANGED <<risks_text, raised, email_content, selected, format, report, calls,
                           attachment, mail_env>>
       ELSE /\ include_summary => summary # PyNone
            /\ (include_risk_score \/ include_risks) => risks # PyNone
            /\ selected' = checked(include_summary, include_risk_score, include_risks, FALSE)
            /\ format' = format_option
            /\ IF ~validate_email(recipient)
               THEN /\ messages' =
                           <<Message("error", "Please enter a valid email address")>>
                    /\ UNCHANGED <<risks_text, raised, email_content, report, calls, attachment,
                                   mail_env>>
               ELSE IF ~(include_summary \/ include_risk_score \/ include_risks)
               THEN /\ messages' =
                           <<Message("warning",
                                     "Please select at least one content type to include")>>
                    /\ UNCHANGED <<risks_text, raised, email_content, report, calls, attachment,
                                   mail_env>>
               ELSE IF prepare_email_raises(include_risk_score, include_risks, risks)
               THEN /\ messages' = <<Message("error", "Error with email functionality")>>
                    /\ risks_text' = risks
                    /\ UNCHANGED <<raised, email_content, report, calls, attachment, mail_env>>
               ELSE /\ (pdf_fails \/ now # NoTime) => format_option # "Text (.txt)"
                    /\ format_option # "Text (.txt)" => now # NoTime
                    /\ secrets = "incomplete" => smtp = "accepts"
                    /\ risks_text' = risks
                    /\ raised' = FALSE
                    /\ email_content' =
                           prepare_email_content(include_summary, include_risk_score,
                                                 include_risks, FALSE, summary, risks)
                    /\ report' = combined_content(email_content')
                    /\ mail_env' = MailEnv(secrets, smtp)
                    /\ attachment' =
                           email_attachment(format_option, report',
                                            email_pdf_buffer(report', now, pdf_fails))
                    /\ calls' =
                           email_calls(format_option, report', now,
                                       email_pdf_buffer(report', now, pdf_fails), attachment',
                                       secrets, smtp, fault)
                    /\ messages' = email_messages(calls', fault)
    /\ UNCHANGED session_vars

\* A call of send_email by itself.
SendEmail(secrets, smtp, a) ==
    /\ last_call = "none"
    /\ last_call' = "send_email"
    /\ LET result == send_email(secrets, smtp, a.attachment, a.attachment_name,
                                a.attachment_type)
       IN  /\ calls' = <<Call("send_email", a, NoTime, result.raised, result)>>
           /\ raised' = result.raised
    /\ UNCHANGED <<summary, risks, risks_text, score_result, filters_result, email_content,
                   selected, format, report, attachment, download, messages, gdpr_vars>>
    /\ mail_env' = MailEnv(secrets, smtp)
    /\ UNCHANGED session_vars

\* app.py, the start of a script run that does not show the privacy policy:
\* show_gdpr_consent_banner().  A click on one of its buttons ends the run
\* with st.rerun(), so the function does not return in that run.
ShowGdprConsentBanner(click) ==
    /\ last_call \in {"none", "show_gdpr_consent_banner", "show_privacy_policy"}
    /\ ~show_privacy_policy
    /\ last_call' = "show_gdpr_consent_banner"
    /\ IF ~gdpr_consent /\ show_gdpr_banner
       THEN CASE click = "View Privacy Policy" ->
                     /\ show_privacy_policy' = TRUE
                     /\ banner_result' = NotReturned
                     /\ UNCHANGED <<gdpr_consent, show_gdpr_banner>>
              [] click = "Accept" ->
                     /\ gdpr_consent' = TRUE
                     /\ show_gdpr_banner' = FALSE
                     /\ banner_result' = NotReturned
                     /\ UNCHANGED show_privacy_policy
              [] click = "none" ->
                     /\ banner_result' = BannerReturned(TRUE)
                     /\ UNCHANGED <<gdpr_consent, show_gdpr_banner, show_privacy_policy>>
       ELSE /\ click = "none"
            /\ banner_result' = BannerReturned(TRUE)
            /\ UNCHANGED <<gdpr_consent, show_gdpr_banner, show_privacy_policy>>
    /\ UNCHANGED <<summary, risks, risks_text, raised, score_result, filters_result,
                   email_content, ui_vars>>
    /\ UNCHANGED session_vars

\* app.py, the start of a script run that shows the privacy policy and
\* stops: show_privacy_policy() with its Back button.
ShowPrivacyPolicy(back) ==
    /\ last_call \in {"none", "show_gdpr_consent_banner", "show_privacy_policy"}
    /\ show_privacy_policy
    /\ last_call' = "show_privacy_policy"
    /\ show_privacy_policy' = ~back
    /\ banner_result' = NotReturned
    /\ UNCHANGED <<gdpr_consent, show_gdpr_banner>>
    /\ UNCHANGED <<summary, risks, risks_text, raised, score_result, filters_result,
                   email_content, ui_vars>>
    /\ UNCHANGED session_vars

InitUi ==
    /\ summary \in SummaryValues
    /\ risks \in UiRiskValues
    /\ Fresh

NextUi ==
    \/ Next
    \/ \E selected_content \in SUBSET {"Summary", "Risk Analysis"},
          export_format \in ExportFormats, now \in Clock, renderer_raises \in BOOLEAN :
           SidebarExport(selected_content, export_format, now, renderer_raises)
    \/ \E secrets \in Secrets, recipient \in Recipients, s, rs, r \in BOOLEAN,
          format_option \in FormatOptions, now \in {Noon, NoTime},
          pdf_fails \in BOOLEAN, smtp \in SmtpOutcomes, fault \in TryFaults :
           EmailUi(secrets, recipient, s, rs, r, format_option, now, pdf_fails, smtp, fault)
    \/ \E secrets \in Secrets, smtp \in SmtpOutcomes, a \in SendArgs :
           SendEmail(secrets, smtp, a)
    \/ \E click \in {"none", "View Privacy Policy", "Accept"} : ShowGdprConsentBanner(click)
    \/ \E back \in BOOLEAN : ShowPrivacyPolicy(back)

SpecUi == InitUi /\ [][NextUi]_vars

(***************************************************************************)
(* ai_analyzer.py: the three calls of the Gemini model.  A reply is the    *)
(* response with its text, a response without text, or an exception with   *)
(* its message.                                                            *)
(***************************************************************************)
Reply(kind, text) == [kind |-> kind, text |-> text]

\* The texts the analyzer returns in place of a reply of the model.
analyzer_strings ==
    [No_text_provided_for_summarization |->
           <<"N", "o", " ", "t", "e", "x", "t", " ", "p", "r", "o", "v", "i", "d", "e", "d",
             " ", "f", "o", "r", " ", "s", "u", "m", "m", "a", "r", "i", "z", "a", "t", "i",
             "o", "n", ".">>,
     No_summary_generated |->
           <<"N", "o", " ", "s", "u", "m", "m", "a", "r", "y", " ", "g", "e", "n", "e", "r",
             "a", "t", "e", "d", ".">>,
     Error_during_summarization |->
           <<"E", "r", "r", "o", "r", " ", "d", "u", "r", "i", "n", "g", " ", "s", "u", "m",
             "m", "a", "r", "i", "z", "a", "t", "i", "o", "n", ":", " ">>,
     No_text_provided |->
           <<"N", "o", " ", "t", "e", "x", "t", " ", "p", "r", "o", "v", "i", "d", "e", "d",
             ".">>,
     No_risks_identified |->
           <<"N", "o", " ", "r", "i", "s", "k", "s", " ", "i", "d", "e", "n", "t", "i", "f",
             "i", "e", "d", ".">>,
     Error_occurred_during_risk_analysis |->
           <<"E", "r", "r", "o", "r", " ", "o", "c", "c", "u", "r", "r", "e", "d", " ", "d",
             "u", "r", "i", "n", "g", " ", "r", "i", "s", "k", " ", "a", "n", "a", "l", "y",
             "s", "i", "s", ":", " ">>,
     No_text_or_query_provided |->
           <<"N", "o", " ", "t", "e", "x", "t", " ", "o", "r", " ", "q", "u", "e", "r", "y",
             " ", "p", "r", "o", "v", "i", "d", "e", "d", ".">>,
     No_response_generated |->
           <<"N", "o", " ", "r", "e", "s", "p", "o", "n", "s", "e", " ", "g", "e", "n", "e",
             "r", "a", "t", "e", "d", ".">>,
     Error_during_chat_interaction |->
           <<"E", "r", "r", "o", "r", " ", "d", "u", "r", "i", "n", "g", " ", "c", "h", "a",
             "t", " ", "i", "n", "t", "e", "r", "a", "c", "t", "i", "o", "n", ":", " ">>]

summarize_document(text, reply) ==
    IF ~truthy(text) THEN PyStr(analyzer_strings.No_text_provided_for_summarization)
    ELSE IF reply.kind = "exception"
    THEN PyStr(analyzer_strings.Error_during_summarization \o reply.text)
    ELSE IF reply.kind = "text" THEN PyStr(strip(reply.text))
    ELSE PyStr(analyzer_strings.No_summary_generated)

identify_risks(text, reply) ==
    IF ~truthy(text) THEN PyStr(analyzer_strings.No_text_provided)
    ELSE IF reply.kind = "exception"
    THEN PyStr(analyzer_strings.Error_occurred_during_risk_analysis \o reply.text)
    ELSE IF reply.kind = "text" THEN PyStr(strip(reply.text))
    ELSE PyStr(analyzer_strings.No_risks_identified)

chat_with_document(text, query, reply) ==
    IF ~truthy(text) \/ ~truthy(query) THEN PyStr(analyzer_strings.No_text_or_query_provided)
    ELSE IF reply.kind = "exception"
    THEN PyStr(analyzer_strings.Error_during_chat_interaction \o reply.text)
    ELSE IF reply.kind = "text" THEN PyStr(strip(reply.text))
    ELSE PyStr(analyzer_strings.No_response_generated)

(***************************************************************************)
(* utils.py and app.py: the session over its script runs.                  *)
(***************************************************************************)
session_defaults ==
    [extracted_text |-> PyNone, summary |-> PyNone, risks |-> PyNone, chat_history |-> <<>>,
     gdpr_consent |-> FALSE, show_gdpr_banner |-> TRUE, show_privacy_policy |-> FALSE]

\* initialize_session_state without its tests `not in st.session_state`:
\* every run of the script sets every key again.
initialize_session_state_overwriting(session_state) == session_defaults

\* Each key is set only if the session does not hold it.
initialize_session_state(session_state) ==
    [key \in DOMAIN session_defaults |->
        IF key \in DOMAIN session_state THEN session_state[key] ELSE session_defaults[key]]

\* st.session_state of a session that has run the script once.
SessionState ==
    [extracted_text |-> extracted_text, summary |-> summary, risks |-> risks,
     chat_history |-> chat_history, gdpr_consent |-> gdpr_consent,
     show_gdpr_banner |-> show_gdpr_banner, show_privacy_policy |-> show_privacy_policy]

\* st.session_state of a new session: no key.
NoKeys == [key \in {} |-> PyNone]

\* Files of type .txt and .docx and of a type the function does not know; a
\* file that cannot be decoded or opened gives None.
extract_text_from_uploaded_file(file) ==
    IF file.type \in {"txt", "doc", "docx"} /\ file.readable THEN PyStr(file.text) ELSE PyNone

\* if not extracted_text or len(extracted_text.strip()) == 0: st.error, st.stop
extraction_fails(extracted) == ~truthy(extracted) \/ Len(strip(extracted.v)) = 0

\* The script run reaches the tabs behind the upload, the sidebar and the
\* footer: the privacy policy is not shown and the upload tab did not stop
\* the run on the file in the uploader.
TabsReached ==
    /\ ~show_privacy_policy
    /\ \/ uploaded_file = NoFile
       \/ ~extraction_fails(extract_text_from_uploaded_file(uploaded_file))

\* display_risk_score: the level shown for a score.
display_risk_level(score) ==
    IF score >= 70 THEN Message("error", "High Risk Level")
    ELSE IF score >= 40 THEN Message("warning", "Medium Risk Level")
    ELSE Message("success", "Low Risk Level")

\* display_risk_summary: the level shown for a score.
summary_risk_level(score) ==
    IF score >= 70 THEN "High Risk Level"
    ELSE IF score >= 40 THEN "Medium Risk Level"
    ELSE "Low Risk Level"

display_risk_score(session_risks) ==
    IF ~truthy(session_risks) \/ ~isinstance_str(session_risks)
    THEN <<Message("info", "No risk data available for scoring.")>>
    ELSE <<display_risk_level(calculate_risk_score(session_risks).score)>>

ChatMessage(role, message) == [role |-> role, message |-> message]

\* The chat tab without its second append: the question is recorded, the
\* response is not.
chat_exchange_without_response(history, user_message, response) ==
    history \o <<ChatMessage("user", user_message)>>

\* The two appends of the chat tab around the call of chat_with_document.
chat_exchange(history, user_message, response) ==
    history \o <<ChatMessage("user", user_message), ChatMessage("assistant", response)>>

\* How many questions are asked in a session.
MaxChats == 2

\* One script run has served its interaction: the script runs again from the
\* top.  The session is kept, what the last run showed is gone.
Rerun ==
    /\ last_call # "none"
    /\ last_call' = "none"
    /\ summary' = initialize_session_state(SessionState).summary
    /\ risks' = initialize_session_state(SessionState).risks
    /\ extracted_text' = initialize_session_state(SessionState).extracted_text
    /\ chat_history' = initialize_session_state(SessionState).chat_history
    /\ gdpr_consent' = initialize_session_state(SessionState).gdpr_consent
    /\ show_gdpr_banner' = initialize_session_state(SessionState).show_gdpr_banner
    /\ show_privacy_policy' = initialize_session_state(SessionState).show_privacy_policy
    /\ risks_text' = PyNone
    /\ raised' = FALSE
    /\ score_result' = NoScore
    /\ filters_result' = NoFilters
    /\ email_content' = <<>>
    /\ selected' = {}
    /\ format' = "None"
    /\ report' = <<>>
    /\ attachment' = NoAttachment
    /\ mail_env' = NoMail
    /\ calls' = <<>>
    /\ download' = NoDownload
    /\ messages' = <<>>
    /\ banner_result' = NotReturned
    /\ UNCHANGED <<uploaded_file, summary_source, risks_source>>

\* What an interaction of the tabs leaves alone.
tab_unchanged ==
    <<risks_text, raised, score_result, filters_result, email_content, selected, format, report,
      attachment, mail_env, calls, download, gdpr_vars>>

\* The upload tab: a file is put in the uploader.
UploadFile(file) ==
    /\ last_call = "none"
    /\ ~show_privacy_policy
    /\ last_call' = "upload"
    /\ uploaded_file' = file
    /\ IF extraction_fails(extract_text_from_uploaded_file(file))
       THEN /\ messages' = <<Message("error", "No text extracted.")>>
            /\ UNCHANGED extracted_text
       ELSE /\ messages' = <<Message("success", "Document processed successfully!")>>
            /\ extracted_text' = extract_text_from_uploaded_file(file)
    /\ UNCHANGED <<summary, risks, chat_history, summary_source, risks_source, tab_unchanged>>

\* The analysis tab: the button Generate Summary.
GenerateSummary(reply) ==
    /\ last_call = "none"
    /\ TabsReached
    /\ truthy(extracted_text)
    /\ last_call' = "generate_summary"
    /\ summary' =
           IF truthy(summarize_document(extracted_text, reply))
           THEN summarize_document(extracted_text, reply)
           ELSE PyStr(analyzer_strings.No_summary_generated)
    /\ summary_source' = Source(extracted_text, reply.kind)
    /\ UNCHANGED <<risks, uploaded_file, extracted_text, chat_history, risks_source, messages,
                   tab_unchanged>>

\* The risk tab: the button Analyze Risks.  identify_risks catches its own
\* exceptions, so the except branch of the tab is not taken.
AnalyzeRisks(reply) ==
    /\ last_call = "none"
    /\ TabsReached
    /\ truthy(extracted_text)
    /\ last_call' = "analyze_risks"
    /\ risks' = identify_risks(extracted_text, reply)
    /\ risks_source' = Source(extracted_text, reply.kind)
    /\ messages' = <<Message("success", "Analysis complete")>>
    /\ UNCHANGED <<summary, uploaded_file, extracted_text, chat_history, summary_source,
                   tab_unchanged>>

\* The risk tab: the button View Score.
ViewScore ==
    /\ last_call = "none"
    /\ TabsReached
    /\ truthy(extracted_text)
    /\ last_call' = "view_score"
    /\ IF truthy(risks)
       THEN /\ risks_text' = risks
            /\ score_result' = calculate_risk_score(risks)
            /\ messages' = display_risk_score(risks)
       ELSE /\ messages' = <<Message("info", "Please analyze the document first.")>>
            /\ UNCHANGED <<risks_text, score_result>>
    /\ UNCHANGED <<summary, risks, raised, filters_result, email_content, selected, format,
                   report, attachment, mail_env, calls, download, gdpr_vars, session_vars>>

\* The chat tab: a question is sent.
Chat(user_message, reply) ==
    /\ last_call = "none"
    /\ TabsReached
    /\ truthy(extracted_text)
    /\ truthy(user_message)
    /\ Len(chat_history) < 2 * MaxChats
    /\ last_call' = "chat"
    /\ chat_history' =
           chat_exchange(chat_history, user_message,
                         chat_with_document(extracted_text, user_message, reply))
    /\ UNCHANGED <<summary, risks, uploaded_file, extracted_text, summary_source, risks_source,
                   messages, tab_unchanged>>

\* The footer: the button View Privacy Policy.
AddPrivacyPolicyFooter ==
    /\ last_call = "none"
    /\ TabsReached
    /\ last_call' = "add_privacy_policy_footer"
    /\ show_privacy_policy' = TRUE
    /\ UNCHANGED <<gdpr_consent, show_gdpr_banner, banner_result>>
    /\ UNCHANGED <<summary, risks, risks_text, raised, score_result, filters_result,
                   email_content, ui_vars, session_vars>>

\* The files put in the uploader: two documents, a blank file and a file
\* that cannot be decoded.
Files ==
    {File("txt", TRUE, DocumentA), File("docx", TRUE, DocumentB), File("txt", TRUE, <<" ">>),
     File("txt", FALSE, <<>>)}

\* str(e) of an exception of the Gemini client.
QuotaError == <<"q", "u", "o", "t", "a">>

SummaryReplies == {Reply("text", SummaryBullets), Reply("exception", QuotaError)}

RiskReplies ==
    {Reply("text", SpecExampleText), Reply("no_text", <<>>), Reply("exception", QuotaError)}

ChatReplies == {Reply("text", <<"Y", "e", "s", ".">>), Reply("exception", QuotaError)}

Queries == {PyStr(<<"W", "h", "o", "?">>)}

\* A new session: initialize_session_state on a session without keys.
SessionInit ==
    /\ summary = initialize_session_state(NoKeys).summary
    /\ risks = initialize_session_state(NoKeys).risks
    /\ Fresh
    /\ SessionState = initialize_session_state(NoKeys)

\* The script runs of a session.  The export and the email are followed for
\* everything the session holds, as text, at one reading of the clock, with
\* the mail server accepting.
NextSession ==
    \/ Rerun
    \/ \E click \in {"none", "View Privacy Policy", "Accept"} : ShowGdprConsentBanner(click)
    \/ \E back \in BOOLEAN : ShowPrivacyPolicy(back)
    \/ AddPrivacyPolicyFooter
    \/ \E file \in Files : UploadFile(file)
    \/ \E reply \in SummaryReplies : GenerateSummary(reply)
    \/ \E reply \in RiskReplies : AnalyzeRisks(reply)
    \/ ViewScore
    \/ \E user_message \in Queries, reply \in ChatReplies : Chat(user_message, reply)
    \/ /\ TabsReached
       /\ SidebarExport(download_options(summary, risks), "TXT", Noon, FALSE)
    \/ /\ TabsReached
       /\ EmailUi("complete", <<"a", "@", "b", ".", "c">>, truthy(summary), FALSE, truthy(risks),
                  "Text (.txt)", NoTime, FALSE, "accepts", "none")

SpecSession == SessionInit /\ [][NextSession]_vars

(***************************************************************************)
(* Vocabulary of the properties.                                           *)
(***************************************************************************)
\* The keyword sets and the score formula of the specification's RiskScorer.
SpecHighKeywords ==
    <<kw_critical, kw_severe, kw_high_risk, kw_significant, kw_major, kw_serious, kw_high>>

SpecMediumKeywords ==
    <<kw_moderate, kw_medium, kw_potential, kw_possible, kw_concerning>>

SpecScore(high, medium, low) ==
    IF high + medium + low = 0 THEN 0
    ELSE min(100, round((high * 3 + medium * 2 + low * 1) * 20, high + medium + low))

InSeq(e, s) == \E i \in 1..Len(s) : s[i] = e

Indices(s) == [i \in 1..Len(s) |-> i]

\* The clauses of the text the last call worked on.
Clauses == IF isinstance_str(risks_text) THEN sentences_of(risks_text.v) ELSE <<>>

NoKeyword(c) ==
    ~any_in(lower(c), SpecHighKeywords) /\ ~any_in(lower(c), SpecMediumKeywords)

ScoreCalled == last_call = "calculate_risk_score"

FiltersCalled == last_call = "display_risks_with_filters"

EmailCalled == last_call = "prepare_email_content"

HasLine(tag) == \E i \in 1..Len(email_content) : email_content[i].tag = tag

NumberOn(tag) ==
    email_content[CHOOSE i \in 1..Len(email_content) : email_content[i].tag = tag].n

\* The report holds a Score section with numbers, a Findings section.
EmailHasScore == EmailCalled /\ HasLine("Overall Risk Score")

EmailHasFindings == EmailCalled /\ HasLine("\nRISK ANALYSIS")

\* What the Score section prints.
EmailScore ==
    Returns(NumberOn("Overall Risk Score"), NumberOn("High Priority Issues"),
            NumberOn("Medium Priority Issues"), NumberOn("Low Priority Issues"))

GroupHeaders ==
    {"\nHIGH PRIORITY RISKS:", "\nMEDIUM PRIORITY RISKS:", "\nLOW PRIORITY RISKS:"}

HeaderOf(i) ==
    LET hs == {j \in 1..i : email_content[j].tag \in GroupHeaders}
    IN  IF hs = {} THEN "none" ELSE email_content[SetMax(hs)].tag

\* The positions of the numbered risks of the Findings section, in order.
EmailItems == SelectSeq(Indices(email_content), LAMBDA i : email_content[i].tag = "item")

\* The texts listed under one group header, in the order listed.
ListedUnder(header) ==
    LET idx == SelectSeq(EmailItems, LAMBDA i : HeaderOf(i) = header)
    IN  [k \in 1..Len(idx) |-> email_content[idx[k]].text]

EmailLists ==
    Lists(ListedUnder("\nHIGH PRIORITY RISKS:"), ListedUnder("\nMEDIUM PRIORITY RISKS:"),
          ListedUnder("\nLOW PRIORITY RISKS:"))

\* The numbered risks display_risks_with_filters shows, in order.
ShownItems ==
    SelectSeq(Indices(filters_result.shown), LAMBDA i : filters_result.shown[i].idx > 0)

ShownUnder(priority) ==
    LET idx == SelectSeq(ShownItems, LAMBDA i : filters_result.shown[i].priority = priority)
    IN  [k \in 1..Len(idx) |-> filters_result.shown[idx[k]].text]

NumFindings(lists) ==
    Len(lists.high_risks) + Len(lists.medium_risks) + Len(lists.low_risks)

SumCounts(r) == r.high + r.medium + r.low

\* listed is the clauses that occur in it, in the order of the text.
InTextOrder(listed) == listed = SelectSeq(Clauses, LAMBDA c : InSeq(c, listed))

(***************************************************************************)
(* C1.  For every risk text the high, medium and low counts the scorer     *)
(* reports sum to the number of findings per-clause classification of the  *)
(* same text produces, and the score is an integer from 0 to 100.          *)
(***************************************************************************)
C1_CountsSumToFindings ==
    /\ ScoreCalled =>
           /\ SumCounts(score_result)
                  = NumFindings(display_risks_with_filters(risks_text,
                                                           {"High", "Medium", "Low"}).lists)
           /\ score_result.score \in 0..100
    /\ EmailHasScore =>
           /\ SumCounts(EmailScore) = NumFindings(categorize_risks(risks_text))
           /\ EmailScore.score \in 0..100

(***************************************************************************)
(* C2.  When one report holds both the Score section and the Findings      *)
(* section, the high, medium and low counts printed in the Score section   *)
(* equal the numbers of findings listed under high, medium and low.        *)
(***************************************************************************)
C2_ScoreSectionMatchesFindings ==
    (EmailHasScore /\ EmailHasFindings) =>
        /\ EmailScore.high = Len(EmailLists.high_risks)
        /\ EmailScore.medium = Len(EmailLists.medium_risks)
        /\ EmailScore.low = Len(EmailLists.low_risks)

(***************************************************************************)
(* C3.  Scoring is total: no call raises, every result is structurally     *)
(* valid (score 0..100, counts natural numbers), and for the empty string, *)
(* None or a non-string the result is score 0, counts 0 and no findings.   *)
(***************************************************************************)
ValidScore(r) ==
    ~r.raised /\ r.score \in 0..100 /\ r.high \in Nat /\ r.medium \in Nat /\ r.low \in Nat

EmptyOrInvalid(x) == ~isinstance_str(x) \/ x.v = <<>>

HasBoth(c, high_words, medium_words) ==
    any_in(lower(c), high_words) /\ any_in(lower(c), medium_words)

HighOnly(c, lists) ==
    InSeq(c, lists.high_risks) /\ ~InSeq(c, lists.medium_risks) /\ ~InSeq(c, lists.low_risks)

C4_FirstMatchPriority ==
    /\ FiltersCalled =>
           \A i \in 1..Len(Clauses) :
               HasBoth(Clauses[i], high_risk_keywords, medium_risk_keywords)
                   => HighOnly(Clauses[i], filters_result.lists)
    /\ EmailHasFindings =>
           \A i \in 1..Len(Clauses) :
               HasBoth(Clauses[i], categorize_high_words, categorize_medium_words)
                   => HighOnly(Clauses[i], EmailLists)
    /\ EmailHasScore =>
           /\ EmailScore.high
                  = Len(SelectSeq(Clauses, LAMBDA c : any_in(lower(c), counts_high_words)))
           /\ EmailScore.medium
                  = Len(SelectSeq(Clauses,
                                  LAMBDA c : /\ any_in(lower(c), counts_medium_words)
                                             /\ ~any_in(lower(c), counts_high_words)))

(***************************************************************************)
(* C5.  For the text "The vendor shall indemnify against all critical      *)
(* liabilities. There is a moderate compliance gap noted here today." the  *)
(* scorer reports 1 HIGH, 1 MEDIUM and 0 LOW findings and a score of 50.   *)
(***************************************************************************)
C5_SpecExample ==
    risks_text = PyStr(SpecExampleText) =>
        /\ ScoreCalled => score_result = Returns(50, 1, 1, 0)
        /\ EmailHasScore => EmailScore = Returns(50, 1, 1, 0)
        /\ FiltersCalled =>
               /\ Len(filters_result.lists.high_risks) = 1
               /\ Len(filters_result.lists.medium_risks) = 1
               /\ Len(filters_result.lists.low_risks) = 0
        /\ EmailHasFindings =>
               /\ Len(EmailLists.high_risks) = 1
               /\ Len(EmailLists.medium_risks) = 1
               /\ Len(EmailLists.low_risks) = 0

(***************************************************************************)
(* C6.  At every place where a score is computed, the score equals         *)
(* min(100, round((high*3 + medium*2 + low*1) / total * 20)) for the       *)
(* counts returned with it when total > 0, and 0 when total = 0.           *)
(***************************************************************************)
C6_ScoreFormula ==
    /\ ScoreCalled =>
           score_result.score
               = SpecScore(score_result.high, score_result.medium, score_result.low)
    /\ EmailHasScore =>
           EmailScore.score = SpecScore(EmailScore.high, EmailScore.medium, EmailScore.low)

(***************************************************************************)
(* C7.  At every classification site a clause is HIGH if and only if it    *)
(* contains one of critical, severe, high risk, significant, major,        *)
(* serious, high; otherwise MEDIUM if and only if it contains one of       *)
(* moderate, medium, potential, possible, concerning.                      *)
(***************************************************************************)
SpecKeywordsDecide(lists) ==
    \A i \in 1..Len(Clauses) :
        LET c == Clauses[i]
            is_high == any_in(lower(c), SpecHighKeywords)
            is_medium == ~is_high /\ any_in(lower(c), SpecMediumKeywords)
        IN  /\ InSeq(c, lists.high_risks) <=> is_high
            /\ InSeq(c, lists.medium_risks) <=> is_medium

C7_KeywordSets ==
    /\ FiltersCalled => SpecKeywordsDecide(filters_result.lists)
    /\ EmailHasFindings => SpecKeywordsDecide(EmailLists)

(***************************************************************************)
(* C8.  A clause that matches no HIGH and no MEDIUM keyword becomes a LOW  *)
(* finding only if it has more than 5 whitespace-delimited words; with 5   *)
(* or fewer words it produces no finding and is counted in no severity     *)
(* count.                                                                  *)
(***************************************************************************)
ShortClausesDropped(lists) ==
    \A i \in 1..Len(Clauses) :
        LET c == Clauses[i]
        IN  NoKeyword(c) =>
                /\ InSeq(c, lists.low_risks) => len_split(c) > 5
                /\ len_split(c) <= 5 =>
                       /\ ~InSeq(c, lists.high_risks)
                       /\ ~InSeq(c, lists.medium_risks)
                       /\ ~InSeq(c, lists.low_risks)

\* In a text without any keyword only the clauses of more than 5 words count.
OnlyLongClausesCounted(r) ==
    (\A i \in 1..Len(Clauses) : NoKeyword(Clauses[i])) =>
        /\ r.high = 0
        /\ r.medium = 0
        /\ r.low <= Len(SelectSeq(Clauses, LAMBDA c : len_split(c) > 5))

C8_ShortClausesNotCounted ==
    /\ FiltersCalled => ShortClausesDropped(filters_result.lists)
    /\ EmailHasFindings => ShortClausesDropped(EmailLists)
    /\ EmailHasScore => OnlyLongClausesCounted(EmailScore)
    /\ ScoreCalled => OnlyLongClausesCounted(score_result)

(***************************************************************************)
(* C9.  The text is segmented by splitting on '.', trimming each piece and *)
(* discarding empty pieces: an empty or whitespace-only piece is never     *)
(* counted as a clause in a severity count, and every listed finding is a  *)
(* trimmed, non-empty piece.                                               *)
(***************************************************************************)
TrimmedPieces(listed) ==
    \A i \in 1..Len(listed) :
        listed[i] # <<>> /\ strip(listed[i]) = listed[i] /\ InSeq(listed[i], Clauses)

\* In a text without any keyword no count exceeds the number of clauses.
EmptyPiecesNotCounted(r) ==
    (\A i \in 1..Len(Clauses) : NoKeyword(Clauses[i])) => SumCounts(r) <= Len(Clauses)

C9_Segmentation ==
    /\ FiltersCalled =>
           /\ filters_result.total = Len(Clauses)
           /\ TrimmedPieces(filters_result.lists.high_risks \o filters_result.lists.medium_risks
                                \o filters_result.lists.low_risks)
    /\ EmailHasFindings =>
           TrimmedPieces(EmailLists.high_risks \o EmailLists.medium_risks
                             \o EmailLists.low_risks)
    /\ EmailHasScore => EmptyPiecesNotCounted(EmailScore)
    /\ ScoreCalled => EmptyPiecesNotCounted(score_result)

(***************************************************************************)
(* C10.  Findings keep their original order of appearance: of two clauses  *)
(* that both become findings, the one earlier in the text is listed        *)
(* earlier, and each finding's text is the trimmed clause unchanged.       *)
(***************************************************************************)
ShownTexts == [k \in 1..Len(ShownItems) |-> filters_result.shown[ShownItems[k]].text]

EmailItemTexts == [k \in 1..Len(EmailItems) |-> email_content[EmailItems[k]].text]

PriorityRank(p) ==
    IF p \in {"High", "\nHIGH PRIORITY RISKS:"} THEN 1
    ELSE IF p \in {"Medium", "\nMEDIUM PRIORITY RISKS:"} THEN 2
    ELSE 3

FirstChars ==
    PyStr(SubSeq(risks_text.v, 1, min(Len(risks_text.v), max_text_length_cap)))

\* Every clause of the whole text with 'critical' or 'severe' is listed as high.
WholeTextClassified(lists) ==
    LET clauses == Clauses
    IN  \A i \in 1..Len(clauses) :
            any_in(lower(clauses[i]), <<kw_critical, kw_severe>>)
                => InSeq(clauses[i], lists.high_risks)

C11_ScoreFromFirstCharsOnly ==
    /\ (ScoreCalled /\ isinstance_str(risks_text)) =>
           score_result = calculate_risk_score(FirstChars)
    /\ EmailHasScore => EmailScore = calculate_risk_counts(FirstChars)
    /\ FiltersCalled => WholeTextClassified(filters_result.lists)
    /\ EmailHasFindings => WholeTextClassified(EmailLists)

(***************************************************************************)
(* C12.  When a section is selected but its source text is absent (no      *)
(* summary, or no risk text), the built report holds no title, no          *)
(* placeholder and no content for that section, and building it raises no  *)
(* error.                                                                  *)
(***************************************************************************)
\* The session holds a text for the section.
Present(section) == IF section = "Summary" THEN truthy(summary) ELSE truthy(risks)

\* The lines a section of the email's report is made of.
SectionTags(section) ==
    CASE section = "Summary" -> {"DOCUMENT SUMMARY", "summary"}
      [] section = "Risk Score" ->
             {"\nRISK SCORE", "Overall Risk Score", "Risk Level: High", "Risk Level: Medium",
              "Risk Level: Low", "High Priority Issues", "Medium Priority Issues",
              "Low Priority Issues",
              "Risk score analysis is included in the detailed risk section."}
      [] section = "Risk Analysis" ->
             {"\nRISK ANALYSIS", "\nHIGH PRIORITY RISKS:", "\nMEDIUM PRIORITY RISKS:",
              "\nLOW PRIORITY RISKS:", "item", "risks_text",
              "Detailed risk analysis is not available in text format."}
      [] OTHER -> {}

\* prepare_email_content returned, called by itself or by the email form.
EmailReportBuilt ==
    \/ last_call = "prepare_email_content" /\ ~raised
    \/ last_call = "email_ui_section" /\ calls # <<>>

SelectedAbsent == {section \in selected : ~Present(section)}

C12_AbsentSectionOmitted ==
    /\ (last_call \in {"prepare_email_content", "email_ui_section"} /\ SelectedAbsent # {}) =>
           ~raised
    /\ EmailReportBuilt =>
           /\ \A section \in SelectedAbsent : ~\E tag \in SectionTags(section) : HasLine(tag)
           /\ email_content =
                  prepare_email_content("Summary" \in selected \ SelectedAbsent,
                                        "Risk Score" \in selected \ SelectedAbsent,
                                        "Risk Analysis" \in selected \ SelectedAbsent, FALSE,
                                        summary, risks)
           /\ report = combined_content(email_content)
    /\ \A chosen \in SUBSET {"Summary", "Risk Analysis"} :
           export_content(chosen, summary, risks)
               = export_content(chosen \cap download_options(summary, risks), summary, risks)

\* Two reports built with an absent section ticked: the Summary of a session
\* without summary, and in the email form the Risk Analysis of a session
\* whose risk text is empty; each holds the other section.
C12_Witness ==
    \/ /\ last_call = "prepare_email_content"
       /\ "Summary" \in selected /\ summary = PyNone
       /\ HasLine("\nRISK ANALYSIS")
    \/ /\ last_call = "email_ui_section"
       /\ "Risk Analysis" \in selected /\ risks = PyStr(<<>>)
       /\ calls # <<>>
       /\ HasLine("DOCUMENT SUMMARY")

(***************************************************************************)
(* C13.  In every built report and in every rendering of it the sections   *)
(* appear in the order Summary, then Score, then Findings, for whichever   *)
(* of them are present: no renderer emits a section before a section that  *)
(* precedes it in the report.                                              *)
(***************************************************************************)
\* Summary 1, Score 2, Findings 3: by the title line of the email's report,
\* by the heading a PDF or a Word document shows, by the words of a title.
TagRank(tag) ==
    CASE tag = "DOCUMENT SUMMARY" -> 1
      [] tag = "\nRISK SCORE" -> 2
      [] tag = "\nRISK ANALYSIS" -> 3
      [] OTHER -> 0

HeadingRank(text) ==
    IF text = render_strings.Document_Summary THEN 1
    ELSE IF text = render_strings.Risk_Assessment_Score THEN 2
    ELSE IF text = render_strings.Detailed_Risk_Analysis THEN 3
    ELSE 0

TitleRank(line) ==
    IF contains(line, content_strings.DOCUMENT_SUMMARY) THEN 1
    ELSE IF contains(line, content_strings.RISK_SCORE) THEN 2
    ELSE IF contains(line, content_strings.RISK_ANALYSIS) THEN 3
    ELSE 0

\* The ranks of the sections in the order they are emitted.
Ascending(ranks) == \A i, j \in 1..Len(ranks) : i < j => ranks[i] <= ranks[j]

EmailRanks ==
    LET titles == SelectSeq(email_content, LAMBDA l : TagRank(l.tag) > 0)
    IN  [i \in 1..Len(titles) |-> TagRank(titles[i].tag)]

\* The titles of the exported content: a title line with its rule of "=".
ExportRanks ==
    LET lines == split(report, "\n")
        titles == SelectSeq([i \in 1..(Len(lines) - 1) |->
                                 IF lines[i + 1] = repeat("=", 50) THEN lines[i] ELSE <<>>],
                            LAMBDA l : l # <<>>)
    IN  [i \in 1..Len(titles) |-> TitleRank(titles[i])]

\* The section headings of a PDF: the cells in bold 14.
PdfRanks(cells) ==
    LET headings == SelectSeq(cells, LAMBDA c : c.font = "B14")
    IN  [i \in 1..Len(headings) |-> HeadingRank(headings[i].text)]

\* The section headings of a Word document: its headings of level 2.
DocxRanks(blocks) ==
    LET headings == SelectSeq(blocks, LAMBDA b : b.level = 2)
    IN  [i \in 1..Len(headings) |-> HeadingRank(headings[i].runs[1].text)]

\* The section titles of a text file: the lines underlined with "-".
TxtRanks(text) ==
    LET lines == split(text, "\n")
        titles == SelectSeq([i \in 1..(Len(lines) - 1) |->
                                 IF lines[i] # <<>> /\ lines[i + 1] = repeat("-", Len(lines[i]))
                                 THEN lines[i]
                                 ELSE <<>>],
                            LAMBDA l : l # <<>>)
    IN  [i \in 1..Len(titles) |-> TitleRank(titles[i])]

Renderers == {"generate_txt", "generate_docx", "generate_pdf", "generate_email_pdf"}

\* The calls of the renderers that returned a document.
Rendered == {k \in 1..Len(calls) : calls[k].fn \in Renderers /\ calls[k].result # PyNone}

RenderedRanks(call) ==
    IF call.fn = "generate_txt" THEN TxtRanks(call.result.v)
    ELSE IF call.fn = "generate_docx" THEN DocxRanks(call.result.v)
    ELSE PdfRanks(call.result.v)

C13_SectionsInOrder ==
    /\ EmailReportBuilt => Ascending(EmailRanks)
    /\ last_call = "sidebar_export" => Ascending(ExportRanks)
    /\ \A k \in Rendered : Ascending(RenderedRanks(calls[k]))

(***************************************************************************)
(* C14.  When no section is selected for export or email, the action       *)
(* yields a validation failure, and no renderer (generate_txt,             *)
(* generate_docx, generate_pdf, generate_email_pdf) and no send is invoked *)
(* for that action.                                                        *)
(***************************************************************************)
\* The multiselect of the sidebar was shown and left with the selection; the
\* form of the email was shown and its Send button pressed.
ExportRequested == last_call = "sidebar_export" /\ download_options(summary, risks) # {}

EmailRequested == last_call = "email_ui_section" /\ format # "None"

ValidationFailure ==
    \E k \in 1..Len(messages) : messages[k].level \in {"error", "warning"}

C14_NothingSelectedIsRejected ==
    ((ExportRequested \/ EmailRequested) /\ selected = {}) =>
        /\ calls = <<>>
        /\ ValidationFailure

(***************************************************************************)
(* C15.  A failure raised inside a renderer never propagates as an         *)
(* unhandled fault to the caller: every call site of generate_txt,         *)
(* generate_docx, generate_pdf and generate_email_pdf catches the failure  *)
(* and either falls back to plain text or shows a user-facing message.     *)
(***************************************************************************)
\* The calls of the renderers that failed: an exception left the renderer, or
\* generate_email_pdf caught its own and returned None.
FailedRenderings ==
    {k \in 1..Len(calls) :
         calls[k].fn \in Renderers /\ (calls[k].raised \/ calls[k].result = PyNone)}

\* After the call the text was handed to send_email as a txt attachment.
FellBackToText(k) ==
    \E l \in (k + 1)..Len(calls) :
        /\ calls[l].fn = "send_email"
        /\ calls[l].arg = Attachment(calls[k].arg, "document_analysis.txt", "txt")

C15_RendererFailureIsHandled ==
    \A k \in FailedRenderings :
        /\ ~raised
        /\ FellBackToText(k) \/ \E m \in 1..Len(messages) : messages[m].level = "error"

(***************************************************************************)
(* C16.  In the email path with the PDF format selected, if the generation *)
(* of the PDF fails the email is sent with the plain-text content as a txt *)
(* attachment named document_analysis.txt; an attachment is declared as    *)
(* type pdf only when the generation of the PDF returned a buffer.         *)
(***************************************************************************)
EmailFormSent == last_call = "email_ui_section" /\ calls # <<>>

\* The text of the report as the attachment of an email.
TextAttachment == Attachment(PyStr(report), "document_analysis.txt", "txt")

DownloadOffered == last_call = "sidebar_export" /\ download # NoDownload

\* The reading of the clock of the renderer's call.
RenderedAt == calls[Len(calls)].now

C17_DownloadMatchesFormat ==
    DownloadOffered =>
        /\ format \in ExportFormats
        /\ calls[Len(calls)].fn = download.renderer
        /\ calls[Len(calls)].arg = PyStr(report)
        /\ calls[Len(calls)].result = download.data
        /\ format = "TXT" =>
               /\ download.renderer = "generate_txt"
               /\ download.data = PyStr(generate_txt(report, RenderedAt))
               /\ download.file_name = "legal_analysis.txt"
               /\ download.mime = "text/plain"
        /\ format = "DOCX" =>
               /\ download.renderer = "generate_docx"
               /\ download.data = BytesIO(generate_docx(report, RenderedAt))
               /\ download.file_name = "legal_analysis.docx"
               /\ download.mime
                      = "application/vnd.openxmlformats-officedocument.wordprocessingml.document"
        /\ format = "PDF" =>
               /\ download.renderer = "generate_pdf"
               /\ download.data = BytesIO(generate_pdf(report, RenderedAt))
               /\ download.file_name = "legal_analysis.pdf"
               /\ download.mime = "application/pdf"

\* A Word document of a report with both sections is offered.
C17_Witness ==
    /\ DownloadOffered
    /\ selected = {"Summary", "Risk Analysis"}
    /\ format = "DOCX"
    /\ download.file_name = "legal_analysis.docx"
    /\ download.data.t = "BytesIO"
    /\ Len(download.data.v) > 5

(***************************************************************************)
(* C18.  Rendering the same report content twice with the plain-text       *)
(* renderer at the same generation timestamp yields identical strings.     *)
(***************************************************************************)
\* The timestamp a report carries is the minute of its generation.
SameTimestamp(a, b) == a.date = b.date /\ a.hour = b.hour /\ a.minute = b.minute

TxtCalls == {k \in 1..Len(calls) : calls[k].fn = "generate_txt"}

C18_TxtRenderingIsDeterministic ==
    \A i, j \in TxtCalls :
        (calls[i].arg = calls[j].arg /\ SameTimestamp(calls[i].now, calls[j].now)) =>
            calls[i].result = calls[j].result

\* The same content was rendered as text twice within one minute, thirty
\* seconds apart.
C18_Witness ==
    /\ Len(calls) = 2
    /\ TxtCalls = {1, 2}
    /\ calls[1].arg = calls[2].arg
    /\ calls[1].arg.v # <<>>
    /\ SameTimestamp(calls[1].now, calls[2].now)
    /\ calls[1].now # calls[2].now
    /\ calls[1].result = calls[2].result
    /\ contains(calls[1].result.v, strftime(calls[1].now))

(***************************************************************************)
(* C19.  show_gdpr_consent_banner returns True if consent is given, False  *)
(* otherwise.                                                              *)
(***************************************************************************)
C19_BannerReturnsConsent ==
    (last_call = "show_gdpr_consent_banner" /\ banner_result.returned) =>
        (banner_result.value <=> gdpr_consent)

(***************************************************************************)
(* C20.  send_email always returns a (success, message) pair and never     *)
(* raises: on a missing or incomplete configuration and on any failure     *)
(* while building or sending the message it returns (False, message), and  *)
(* it returns (True, ...) only after the message was handed to the SMTP    *)
(* server.                                                                 *)
(***************************************************************************)
SendCalls == {k \in 1..Len(calls) : calls[k].fn = "send_email"}

C20_SendEmailReportsAndNeverRaises ==
    \A k \in SendCalls :
        LET result == calls[k].result
            a == calls[k].arg
        IN  /\ ~calls[k].raised /\ ~result.raised
            /\ last_call = "send_email" => ~raised
            /\ result.success \in BOOLEAN
            /\ result.message # "None"
            /\ mail_env.secrets \in {"missing", "incomplete"} =>
                   ~result.success /\ ~result.handed
            /\ attach_raises(a.attachment, a.attachment_name, a.attachment_type) =>
                   ~result.success /\ ~result.handed
            /\ mail_env.smtp # "accepts" => ~result.success
            /\ result.success =>
                   /\ result.handed
                   /\ mail_env = MailEnv("complete", "accepts")
                   /\ result.message = "Email sent successfully!"
            /\ ~result.success => result.message # "Email sent successfully!"

\* send_email was called without an [email] section in the secrets and
\* returned (False, message).
C20_Witness ==
    /\ last_call = "send_email"
    /\ mail_env.secrets = "missing"
    /\ calls[1].result.success = FALSE
    /\ calls[1].result.message = "Error sending email"
    /\ ~raised

(***************************************************************************)
(* C21.  The plain-text renderer emits an opening banner, then exactly one *)
(* title line followed by an underline of the same length for each section *)
(* of the report and no title/underline pair for anything else, each       *)
(* followed by that section's content, then a closing banner.              *)
(***************************************************************************)
\* The lines of a text that the next line underlines with the given character.
Underlined(text, rule, width) ==
    LET lines == split(text, "\n")
    IN  SelectSeq([i \in 1..(Len(lines) - 1) |->
                       IF lines[i] # <<>>
                              /\ lines[i + 1] = repeat(rule, IF width = 0 THEN Len(lines[i]) ELSE width)
                       THEN lines[i]
                       ELSE <<>>],
                  LAMBDA l : l # <<>>)

\* The section titles of the exported content, each ruled off with 50 "=".
ReportTitles(content) == Underlined(content, "=", 50)

\* The title/underline pairs of a text file.
TxtTitles(text) == Underlined(text, "-", 0)

TxtBanners(text) ==
    LET lines == split(text, "\n")
        n == Len(lines)
    IN  /\ n >= 8
        /\ lines[1] = repeat("=", 80)
        /\ lines[2] = render_strings.LEGAL_DOCUMENT_ANALYSIS_REPORT
        /\ startswith(lines[3], render_strings.Generated_on_colon)
        /\ lines[4] = repeat("=", 80)
        /\ lines[n - 1] = repeat("-", 80)
        /\ lines[n] = render_strings.End_of_Report

C21_TxtTitlePerSection ==
    \A k \in TxtCalls :
        /\ TxtBanners(calls[k].result.v)
        /\ TxtTitles(calls[k].result.v) = ReportTitles(calls[k].arg.v)

(***************************************************************************)
(* C22.  In the document renderer, every finding line of a Findings        *)
(* section is prefixed with its severity label styled by severity: HIGH    *)
(* bold and red, MEDIUM bold and orange, LOW default colour and default    *)
(* weight.                                                                 *)
(***************************************************************************)
DocxCalls == {k \in Rendered : calls[k].fn = "generate_docx"}

IsHeading(block, text) == block.level = 2 /\ block.runs[1].text = text

\* The paragraphs of the Findings section of a Word document: those between
\* the heading "Detailed Risk Analysis" and the next heading or the closing
\* line.
DocxFindings(blocks) ==
    {i \in 1..(Len(blocks) - 1) :
        /\ blocks[i].level = 0
        /\ blocks[i].runs # <<>>
        /\ \E h \in 1..(i - 1) :
               /\ IsHeading(blocks[h], render_strings.Detailed_Risk_Analysis)
               /\ \A j \in (h + 1)..(i - 1) : blocks[j].level = 0}

SeverityOf(label) ==
    IF startswith(lower(label), kw_high) THEN "high"
    ELSE IF startswith(lower(label), kw_medium) THEN "medium"
    ELSE IF startswith(lower(label), render_strings.low) THEN "low"
    ELSE "None"

StyledBySeverity(run) ==
    /\ SeverityOf(run.text) = "high" => run.bold /\ run.color = "red"
    /\ SeverityOf(run.text) = "medium" => run.bold /\ run.color = "orange"
    /\ SeverityOf(run.text) = "low" => ~run.bold /\ run.color = "default"

C22_DocxFindingsLabelled ==
    \A k \in DocxCalls :
        \A i \in DocxFindings(calls[k].result.v) :
            LET label == calls[k].result.v[i].runs[1]
            IN  /\ SeverityOf(label.text) # "None"
                /\ contains(label.text, <<":">>)
                /\ Len(calls[k].result.v[i].runs) = 2
                /\ StyledBySeverity(label)

(***************************************************************************)
(* C23.  In the PDF renderer, whenever the report has findings they are    *)
(* rendered grouped into High, Medium and Low Priority blocks, each under  *)
(* a header whose colour is the one the document renderer uses for that    *)
(* severity (red for high, orange for medium, default for low).            *)
(***************************************************************************)
PdfCalls == {k \in Rendered : calls[k].fn \in {"generate_pdf", "generate_email_pdf"}}

\* The findings of the session's risk analysis, by severity.
Findings == categorize_risks(risks)

\* The PDF holds a block for the severity: a header cell with its title.
HasBlock(cells, title, color) ==
    \E i \in 1..Len(cells) :
        cells[i].kind = "cell" /\ cells[i].text = title /\ cells[i].color = color

\* The report rendered has a Findings section built from the analysis.
RendersFindings(call) ==
    /\ "Risk Analysis" \in selected
    /\ truthy(risks)
    /\ contains(call.arg.v, content_strings.RISK_ANALYSIS)

C23_PdfFindingsGrouped ==
    \A k \in PdfCalls :
        RendersFindings(calls[k]) =>
            /\ Findings.high_risks # <<>> =>
                   HasBlock(calls[k].result.v, render_strings.High_Priority_Risks, "red")
            /\ Findings.medium_risks # <<>> =>
                   HasBlock(calls[k].result.v, render_strings.Medium_Priority_Risks, "orange")
            /\ Findings.low_risks # <<>> =>
                   HasBlock(calls[k].result.v, render_strings.Low_Priority_Risks, "black")

(***************************************************************************)
(* C24.  For every risk text, the score and the high/medium/low counts     *)
(* shown on screen (calculate_risk_score) equal the score and counts       *)
(* written into the emailed report (calculate_risk_counts) for the same    *)
(* text.                                                                   *)
(***************************************************************************)
\* The score was computed for the screen from a risk text.
ScoreShown == ScoreCalled /\ isinstance_str(risks_text) /\ truthy(risks_text)

C24_ScreenScoreEqualsEmailScore ==
    /\ ScoreShown => score_result = calculate_risk_counts(risks_text)
    /\ EmailHasScore => EmailScore = calculate_risk_score(risks)

(***************************************************************************)
(* C25.  Each of the three risk levels shown on screen is reachable: there *)
(* are risk texts for which calculate_risk_score returns a score of at     *)
(* least 70 (High), texts with a score from 40 to 69 (Medium) and texts    *)
(* with a score below 40 (Low), the level being High iff score >= 70,      *)
(* Medium iff 40 <= score < 70, Low otherwise.                             *)
(***************************************************************************)
LevelOf(score) ==
    IF score >= 70 THEN "High" ELSE IF score >= 40 THEN "Medium" ELSE "Low"

\* The three places that name the level of a score agree with the thresholds.
LevelsByThreshold ==
    \A score \in 0..100 :
        /\ display_risk_level(score).text = LevelOf(score) \o " Risk Level"
        /\ summary_risk_level(score) = LevelOf(score) \o " Risk Level"
        /\ risk_level(score) = "Risk Level: " \o LevelOf(score)

\* The levels of the scores calculate_risk_score gives the risk texts.
ScreenLevels == {LevelOf(calculate_risk_score(PyStr(text)).score) : text \in Texts}

C25_EachLevelReachable ==
    /\ LevelsByThreshold
    /\ ScreenLevels = {"High", "Medium", "Low"}

(***************************************************************************)
(* C26.  GDPR consent is monotone: the session starts with gdpr_consent    *)
(* false and show_gdpr_banner true; after Accept, gdpr_consent is true and *)
(* show_gdpr_banner is false, and no later action (viewing or leaving the  *)
(* privacy policy, re-running initialize_session_state, any other UI       *)
(* event) sets gdpr_consent back to false or shows the banner again; in    *)
(* every reachable state gdpr_consent implies not show_gdpr_banner.        *)
(***************************************************************************)
ConsentGiven == gdpr_consent = TRUE /\ show_gdpr_banner = FALSE

NoConsentYet == gdpr_consent = FALSE /\ show_gdpr_banner = TRUE

\* Consent given stays given, and it is given by Accept only.
ConsentStep ==
    /\ ConsentGiven => ConsentGiven'
    /\ (NoConsentYet /\ ~NoConsentYet') =>
           ConsentGiven' /\ last_call' = "show_gdpr_consent_banner"

C26_ConsentIsMonotone ==
    /\ NoConsentYet
    /\ [](gdpr_consent = TRUE => show_gdpr_banner = FALSE)
    /\ [](NoConsentYet \/ ConsentGiven)
    /\ [][ConsentStep]_vars

\* Consent was given, the privacy policy was then opened from the footer
\* and left, and the script ran again: the consent is still held.
C26_Witness ==
    /\ ConsentGiven
    /\ last_call = "show_privacy_policy"
    /\ show_privacy_policy = FALSE

(***************************************************************************)
(* C27.  After any sequence of chat interactions, chat_history has even    *)
(* length and strictly alternates user, assistant, user, assistant: every  *)
(* user message is immediately followed by the response produced for it,   *)
(* and a user message is recorded only while extracted text is present.    *)
(***************************************************************************)
ChatAlternates ==
    /\ Len(chat_history) % 2 = 0
    /\ \A i \in 1..Len(chat_history) :
           chat_history[i].role = IF i % 2 = 1 THEN "user" ELSE "assistant"

\* The chat grows by one question and the answer chat_with_document gave to
\* it on the text held, and it never shrinks.
ChatStep ==
    chat_history' # chat_history =>
        /\ truthy(extracted_text)
        /\ Len(chat_history') = Len(chat_history) + 2
        /\ SubSeq(chat_history', 1, Len(chat_history)) = chat_history
        /\ chat_history'[Len(chat_history) + 1].role = "user"
        /\ truthy(chat_history'[Len(chat_history) + 1].message)
        /\ \E reply \in ChatReplies :
               chat_history'[Len(chat_history) + 2] =
                   ChatMessage("assistant",
                               chat_with_document(extracted_text,
                                                  chat_history'[Len(chat_history) + 1].message,
                                                  reply))

C27_ChatAlternates == []ChatAlternates /\ [][ChatStep]_vars

\* Two questions were asked; the first was answered, the second met an
\* exception of the model and got the error text as its response.
C27_Witness ==
    /\ last_call = "chat"
    /\ Len(chat_history) = 4
    /\ chat_history[2].message = PyStr(<<"Y", "e", "s", ".">>)
    /\ chat_history[4].message =
           PyStr(analyzer_strings.Error_during_chat_interaction \o QuotaError)

(***************************************************************************)
(* C28.  In every reachable session state, a summary or risk text that is  *)
(* held, displayed, exported or emailed was derived from the               *)
(* extracted_text currently held: after a new document is uploaded and     *)
(* extracted, a summary or risk text derived from the previous document is *)
(* no longer offered for display, export or email.                         *)
(***************************************************************************)
C28_AnalysesOfTheDocumentHeld ==
    /\ summary # PyNone => summary_source.text = extracted_text
    /\ risks # PyNone => risks_source.text = extracted_text

(***************************************************************************)
(* C29.  After 'Analyze Risks', session risks holds text that is scored,   *)
(* exported and emailed only if the risk-identification call succeeded: an *)
(* error outcome or a no-text outcome of identify_risks is never stored as *)
(* risk text that calculate_risk_score or the export/email paths then      *)
(* treat as a risk narrative.                                              *)
(***************************************************************************)
\* The risks held are scored, exported or emailed in this script run.
RisksUsed ==
    \/ last_call = "view_score" /\ risks_text = risks /\ risks # PyNone
    \/ last_call \in {"sidebar_export", "email_ui_section"}
           /\ calls # <<>>
           /\ "Risk Analysis" \in selected

C29_OnlySuccessfulAnalysisIsStored ==
    /\ last_call = "analyze_risks" => (truthy(risks) => risks_source.outcome = "text")
    /\ RisksUsed => risks_source.outcome = "text"

(***************************************************************************)
(* C30.  For one click of Send Email, send_email is invoked only if the    *)
(* recipient passes validate_email and at least one of summary, risk       *)
(* score, risk analysis is selected; it is invoked at most twice, the      *)
(* second time only after an exception in the first attempt and then with  *)
(* the txt attachment; and every invocation carries a non-empty            *)
(* attachment.                                                             *)
(***************************************************************************)
MessageShown(level, text) == \E i \in 1..Len(messages) : messages[i] = Message(level, text)

\* The form refused the recipient: validate_email returned False.
RecipientRejected == MessageShown("error", "Please enter a valid email address")

\* The except branch of the form was entered.
ExceptionInFirstAttempt == MessageShown("error", "Error preparing email")

SendsGuarded ==
    SendCalls # {} =>
        /\ ~RecipientRejected
        /\ selected \cap {"Summary", "Risk Score", "Risk Analysis"} # {}

AtMostTwoSends ==
    /\ Cardinality(SendCalls) <= 2
    /\ Cardinality(SendCalls) = 2 =>
           /\ ExceptionInFirstAttempt
           /\ calls[Len(calls)].fn = "send_email"
           /\ calls[Len(calls)].arg = TextAttachment

EverySendAttaches ==
    \A k \in SendCalls :
        /\ calls[k].arg.attachment # PyNone
        /\ calls[k].arg.attachment.v # <<>>

C30_SendEmailInvocations ==
    last_call = "email_ui_section" =>
        /\ SendsGuarded
        /\ AtMostTwoSends
        /\ EverySendAttaches
====
